---------------------------- MODULE Spec2Model ----------------------------
(***************************************************************************)
(* State-machine model of the physics-2d engine (PhysicsEngine, RigidBody, *)
(* Collision, Island, QuadTree).                                           *)
(*                                                                         *)
(* Numbers.  A JavaScript number is modelled as an exact rational <<n,d>>  *)
(* in lowest terms with d > 0.  <<1,0>> stands for +Infinity (the value of *)
(* 1/0 in JavaScript).                                                     *)
(*                                                                         *)
(* Shapes.  Every collider is a Polygon, built by Polygon.fromRect or      *)
(* handed to RigidBody.fromConvexPolygon.  Non-fixed bodies are            *)
(* constructed with angularMass = Infinity, so inverseAngularMass = 0,     *)
(* angularVelocity stays 0 and rotate() is always called with delta 0      *)
(* (sin 0, cos 1).  Every body has friction 0 or is fixed, so the decay    *)
(* factor exp(-dt * friction) applied by integrate() is exp(0) = 1.        *)
(***************************************************************************)
EXTENDS Integers, Sequences, FiniteSets, TLC

(* ------------------------------ numbers ------------------------------- *)

RECURSIVE GCD(_, _)
GCD(a, b) ==
    IF b = 0 THEN a ELSE GCD(b, a % b)

AbsInt(n) ==
    IF n < 0 THEN -n ELSE n

Reduce(n, d, g) ==
    <<n \div g, d \div g>>

Q(n, d) ==
    IF d = 0 THEN <<(IF n > 0 THEN 1 ELSE IF n < 0 THEN -1 ELSE 0), 0>>
    ELSE Reduce(IF d < 0 THEN -n ELSE n, AbsInt(d), GCD(AbsInt(n), AbsInt(d)))

I(n) ==
    <<n, 1>>

Zero ==
    <<0, 1>>

Infinity ==
    <<1, 0>>

Plus(a, b) ==
    Q(a[1] * b[2] + b[1] * a[2], a[2] * b[2])

Minus(a, b) ==
    Q(a[1] * b[2] - b[1] * a[2], a[2] * b[2])

Times(a, b) ==
    Q(a[1] * b[1], a[2] * b[2])

Over(a, b) ==
    Q(a[1] * b[2], a[2] * b[1])

Neg(a) ==
    <<-a[1], a[2]>>

Lt(a, b) ==
    a[1] * b[2] < b[1] * a[2]

Le(a, b) ==
    a[1] * b[2] <= b[1] * a[2]

Gt(a, b) ==
    Lt(b, a)

Ge(a, b) ==
    Le(b, a)

AbsQ(a) ==
    <<AbsInt(a[1]), a[2]>>

MaxQ(a, b) ==
    IF Lt(a, b) THEN b ELSE a

MinQ(a, b) ==
    IF Lt(b, a) THEN b ELSE a

Floor(a) ==
    a[1] \div a[2]

IsFinite(a) ==
    a[2] # 0

(* clamp with both limits left out. *)
clampNothing(x, min, max) ==
    x

clamp(x, min, max) ==
    MinQ(MaxQ(min, x), max)

(* ------------------------------- Vec2 --------------------------------- *)

Vec2(x, y) ==
    [x |-> x, y |-> y]

Vec2Zero ==
    Vec2(Zero, Zero)

Vec2Add(a, b) ==
    Vec2(Plus(a.x, b.x), Plus(a.y, b.y))

Vec2Sub(a, b) ==
    Vec2(Minus(a.x, b.x), Minus(a.y, b.y))

Vec2MulScalar(a, s) ==
    Vec2(Times(a.x, s), Times(a.y, s))

Vec2Neg(a) ==
    Vec2(Neg(a.x), Neg(a.y))

Vec2Dot(a, b) ==
    Plus(Times(a.x, b.x), Times(a.y, b.y))

Vec2Cross(a, b) ==
    Minus(Times(a.x, b.y), Times(a.y, b.x))

Vec2Perpendicular(a) ==
    Vec2(Neg(a.y), a.x)

MagnitudeSquared(a) ==
    Plus(Times(a.x, a.x), Times(a.y, a.y))

(* ------------------------------- AABB --------------------------------- *)

AABB(min, max) ==
    [min |-> min, max |-> max]

AABBFromDimensions(x, y, width, height) ==
    AABB(Vec2(x, y), Vec2(Plus(x, width), Plus(y, height)))

AABBTranslate(b, delta) ==
    AABB(Vec2Add(b.min, delta), Vec2Add(b.max, delta))

AABBIntersects(this, other) ==
    /\ Lt(this.min.x, other.max.x)
    /\ Gt(this.max.x, other.min.x)
    /\ Lt(this.min.y, other.max.y)
    /\ Gt(this.max.y, other.min.y)

AABBContains(this, other) ==
    /\ Ge(other.min.x, this.min.x)
    /\ Le(other.max.x, this.max.x)
    /\ Ge(other.min.y, this.min.y)
    /\ Le(other.max.y, this.max.y)

(* ------------------------------ Polygon ------------------------------- *)

RECURSIVE FoldMin(_, _, _)
FoldMin(s, i, acc) ==
    IF i > Len(s) THEN acc ELSE FoldMin(s, i + 1, MinQ(acc, s[i]))

RECURSIVE FoldMax(_, _, _)
FoldMax(s, i, acc) ==
    IF i > Len(s) THEN acc ELSE FoldMax(s, i + 1, MaxQ(acc, s[i]))

PolygonTranslate(points, delta) ==
    [i \in DOMAIN points |-> Vec2Add(points[i], delta)]

PolygonFromRect(centre, width, height) ==
    LET halfWidth == Times(width, Q(1, 2))
        halfHeight == Times(height, Q(1, 2))
    IN  PolygonTranslate(<<Vec2(Neg(halfWidth), Neg(halfHeight)),
                           Vec2(Neg(halfWidth), halfHeight),
                           Vec2(halfWidth, halfHeight),
                           Vec2(halfWidth, Neg(halfHeight))>>, centre)

GetMinX(points) ==
    FoldMin([i \in DOMAIN points |-> points[i].x], 2, points[1].x)

GetMinY(points) ==
    FoldMin([i \in DOMAIN points |-> points[i].y], 2, points[1].y)

GetMaxX(points) ==
    FoldMax([i \in DOMAIN points |-> points[i].x], 2, points[1].x)

GetMaxY(points) ==
    FoldMax([i \in DOMAIN points |-> points[i].y], 2, points[1].y)

RECURSIVE SumVec(_, _)
SumVec(points, i) ==
    IF i > Len(points) THEN Vec2Zero ELSE Vec2Add(points[i], SumVec(points, i + 1))

PolygonGetCentre(points) ==
    Vec2MulScalar(SumVec(points, 1), Q(1, Len(points)))

PolygonSetCentre(points, centre) ==
    PolygonTranslate(points, Vec2Sub(centre, PolygonGetCentre(points)))

(* Vec2.rotate with the sin and cos the caller passes in. *)
Vec2Rotate(p, origin, sin, cos) ==
    LET dx == Minus(p.x, origin.x)
        dy == Minus(p.y, origin.y)
    IN  Vec2(Plus(Minus(Times(dx, cos), Times(dy, sin)), origin.x),
             Plus(Plus(Times(dx, sin), Times(dy, cos)), origin.y))

PolygonRotate(points, origin, sin, cos) ==
    [i \in DOMAIN points |-> Vec2Rotate(points[i], origin, sin, cos)]

AABBFromShape(points) ==
    AABB(Vec2(GetMinX(points), GetMinY(points)), Vec2(GetMaxX(points), GetMaxY(points)))

(* ----------------------------- RigidBody ------------------------------ *)

(* new RigidBody(collider, position, mass, angularMass, restitution,      *)
(* friction, fixed); id is the value of RigidBody.nextID++.  island 0      *)
(* stands for undefined, island k >= 1 for the k-th entry of               *)
(* engine.islands.                                                         *)
RigidBody(id, collider, position, mass, angularMass, restitution, friction, fixed) ==
    LET construct(placed) ==
        [id |-> id,
         timeStill |-> Zero,
         sleeping |-> FALSE,
         fixed |-> fixed,
         island |-> 0,
         collider |-> placed,
         bounds |-> AABBFromShape(placed),
         position |-> position,
         rotation |-> Zero,
         restitution |-> restitution,
         friction |-> friction,
         mass |-> mass,
         inverseMass |-> IF fixed THEN Zero ELSE Over(I(1), mass),
         linearAcceleration |-> Vec2Zero,
         linearVelocity |-> Vec2Zero,
         angularMass |-> angularMass,
         inverseAngularMass |-> IF fixed THEN Zero ELSE Over(I(1), angularMass),
         angularAcceleration |-> Zero,
         angularVelocity |-> Zero]
    IN  construct(PolygonSetCentre(collider, position))

(* RigidBody.fromRect with the angular mass passed explicitly. *)
FromRect(id, width, height, position, density, angularMass, restitution, friction, fixed) ==
    RigidBody(id, PolygonFromRect(Vec2Zero, width, height), position,
              Times(Times(width, height), density), angularMass, restitution, friction, fixed)


(* Polygon.getArea *)
RECURSIVE SumCross(_, _)
SumCross(points, i) ==
    IF i > Len(points) THEN Zero
    ELSE Plus(Vec2Cross(points[i], points[(i % Len(points)) + 1]), SumCross(points, i + 1))

PolygonGetArea(points) ==
    Times(AbsQ(SumCross(points, 1)), Q(1, 2))

(* RigidBody.fromConvexPolygon with the angular mass passed explicitly. *)
FromConvexPolygon(id, points, position, density, angularMass, restitution, friction, fixed) ==
    RigidBody(id, points, position, Times(PolygonGetArea(points), density), angularMass,
              restitution, friction, fixed)

(* translate that moves the position and the collider and forgets the      *)
(* bounds.                                                                 *)
translateKeepBounds(b, delta) ==
    [b EXCEPT !.position = Vec2Add(b.position, delta),
              !.collider = PolygonTranslate(b.collider, delta)]

translate(b, delta) ==
    [b EXCEPT !.position = Vec2Add(b.position, delta),
              !.collider = PolygonTranslate(b.collider, delta),
              !.bounds = AABBTranslate(b.bounds, delta)]

(* rotate(delta) for the two angles whose sine and cosine are rational:    *)
(* quarter = 0 is delta 0 (sin 0, cos 1), quarter = 1 is delta PI/2        *)
(* (sin 1, cos 0).  b.rotation counts quarter turns.                       *)
rotate(b, quarter) ==
    LET sin == I(quarter)
        cos == I(1 - quarter)
        assign(turned) ==
            [b EXCEPT !.rotation = Plus(b.rotation, I(quarter)),
                      !.collider = turned,
                      !.bounds = AABB(Vec2(GetMinX(turned), GetMinY(turned)),
                                      Vec2(GetMaxX(turned), GetMaxY(turned)))]
    IN  assign(PolygonRotate(b.collider, b.position, sin, cos))

getVelocityAtPoint(b, radius) ==
    Vec2Add(b.linearVelocity, Vec2MulScalar(Vec2Perpendicular(radius), b.angularVelocity))

(* applyImpulse that does not scale the impulse by the inverse mass. *)
applyImpulseUnscaled(b, impulse, radius) ==
    [b EXCEPT !.linearVelocity = Vec2Add(b.linearVelocity, impulse)]

applyImpulse(b, impulse, radius) ==
    [b EXCEPT !.linearVelocity = Vec2Add(b.linearVelocity, Vec2MulScalar(impulse, b.inverseMass)),
              !.angularVelocity = Plus(b.angularVelocity,
                                       Times(Vec2Cross(radius, impulse), b.inverseAngularMass))]

(* integrate(deltaSeconds).  angularVelocity * deltaSeconds is 0 for every *)
(* body of the model, so rotate is applied with delta 0; the decay factor  *)
(* exp(-deltaSeconds * friction) is 1 because a body that gets past the    *)
(* first line has friction 0.                                              *)
integrate(b, deltaSeconds) ==
    IF b.fixed \/ b.sleeping THEN b
    ELSE LET linearDecay == I(1)
             angularDecay == I(1)
             decay(b2) ==
                 [b2 EXCEPT !.linearVelocity = Vec2MulScalar(b2.linearVelocity, linearDecay),
                            !.angularVelocity = Times(b2.angularVelocity, angularDecay),
                            !.linearAcceleration = Vec2Zero,
                            !.angularAcceleration = Zero]
             spin(b1) ==
                 decay(rotate([b1 EXCEPT !.angularVelocity =
                                  Plus(b1.angularVelocity, Times(b1.angularAcceleration, deltaSeconds))], 0))
             move(v1) ==
                 spin(translate([b EXCEPT !.linearVelocity = v1], Vec2MulScalar(v1, deltaSeconds)))
         IN  move(Vec2Add(b.linearVelocity, Vec2MulScalar(b.linearAcceleration, deltaSeconds)))

(* ------------------------------ QuadTree ------------------------------ *)

MAX_DEPTH ==
    4

worldBounds ==
    AABBFromDimensions(Zero, Zero, I(16), I(16))

(* A node is named by its path from the root: a sequence over 0..3.       *)
ChildBounds(bounds, i) ==
    LET halfWidth == Times(Minus(bounds.max.x, bounds.min.x), Q(1, 2))
        halfHeight == Times(Minus(bounds.max.y, bounds.min.y), Q(1, 2))
    IN  CASE i = 0 -> AABBFromDimensions(bounds.min.x, bounds.min.y, halfWidth, halfHeight)
          [] i = 1 -> AABBFromDimensions(Plus(bounds.min.x, halfWidth), bounds.min.y, halfWidth, halfHeight)
          [] i = 2 -> AABBFromDimensions(bounds.min.x, Plus(bounds.min.y, halfHeight), halfWidth, halfHeight)
          [] i = 3 -> AABBFromDimensions(Plus(bounds.min.x, halfWidth), Plus(bounds.min.y, halfHeight),
                                         halfWidth, halfHeight)

RECURSIVE NodeBounds(_)
NodeBounds(path) ==
    IF path = <<>> THEN worldBounds
    ELSE ChildBounds(NodeBounds(SubSeq(path, 1, Len(path) - 1)), path[Len(path)])

IsPrefix(p, q) ==
    Len(p) <= Len(q) /\ SubSeq(q, 1, Len(p)) = p

(* QuadTreeNode.insert: the path of the node that receives the item. *)
RECURSIVE NodeInsertPath(_, _)
NodeInsertPath(path, itemBounds) ==
    LET descend(fits) ==
            IF Len(path) < MAX_DEPTH /\ fits # {}
            THEN NodeInsertPath(Append(path, CHOOSE i \in fits : \A j \in fits : i <= j), itemBounds)
            ELSE path
        children(bounds) ==
            descend({i \in 0..3 : AABBContains(ChildBounds(bounds, i), itemBounds)})
    IN  children(NodeBounds(path))

EmptyQuadTree ==
    [nodes |-> (<<>> :> <<>>), itemLocations |-> <<>>]

(* QuadTree.insert without its first line. *)
QuadTreeInsertAnywhere(qt, id, itemBounds) ==
    LET push(path, grown) ==
            [nodes |-> [grown EXCEPT ![path] = Append(@, id)],
             itemLocations |-> [k \in DOMAIN qt.itemLocations \cup {id} |->
                                   IF k = id THEN <<path, Len(grown[path]) + 1>>
                                   ELSE qt.itemLocations[k]]]
        locate(path) ==
            push(path, [p \in DOMAIN qt.nodes \cup {SubSeq(path, 1, k) : k \in 0..Len(path)} |->
                           IF p \in DOMAIN qt.nodes THEN qt.nodes[p] ELSE <<>>])
    IN  locate(NodeInsertPath(<<>>, itemBounds))

(* QuadTree.insert; itemLocations maps an item to <<path, index>> with a   *)
(* 1-based index into the node's items.                                    *)
QuadTreeInsert(qt, id, itemBounds) ==
    IF ~AABBContains(NodeBounds(<<>>), itemBounds) THEN qt
    ELSE LET push(path, grown) ==
                 [nodes |-> [grown EXCEPT ![path] = Append(@, id)],
                  itemLocations |-> [k \in DOMAIN qt.itemLocations \cup {id} |->
                                        IF k = id THEN <<path, Len(grown[path]) + 1>>
                                        ELSE qt.itemLocations[k]]]
             locate(path) ==
                 push(path, [p \in DOMAIN qt.nodes \cup {SubSeq(path, 1, k) : k \in 0..Len(path)} |->
                                IF p \in DOMAIN qt.nodes THEN qt.nodes[p] ELSE <<>>])
         IN  locate(NodeInsertPath(<<>>, itemBounds))

QuadTreeInsertResult(qt, itemBounds) ==
    AABBContains(NodeBounds(<<>>), itemBounds)

(* swapRemove without the swap: the last element goes. *)
swapRemoveLast(array, index) ==
    SubSeq(array, 1, Len(array) - 1)

(* swapRemove(array, index) with a 1-based index; index 0 stands for the  *)
(* JavaScript index -1 (indexOf found nothing), for which the swap writes  *)
(* undefined into the last slot and pop() then drops that slot.            *)
swapRemove(array, index) ==
    IF index = 0 \/ array = <<>> THEN SubSeq(array, 1, Len(array) - 1)
    ELSE SubSeq([array EXCEPT ![index] = array[Len(array)]], 1, Len(array) - 1)

IndexOf(array, x) ==
    IF \E k \in 1..Len(array) : array[k] = x
    THEN CHOOSE k \in 1..Len(array) : array[k] = x /\ \A j \in 1..(k - 1) : array[j] # x
    ELSE 0

(* QuadTreeNode.prune called on the node at path: every strict descendant  *)
(* whose subtree holds no item is dropped.                                 *)
NodePrune(nodes, path) ==
    LET keep == {p \in DOMAIN nodes :
                    \/ ~(IsPrefix(path, p) /\ p # path)
                    \/ \E q \in DOMAIN nodes : IsPrefix(p, q) /\ nodes[q] # <<>>}
    IN  [p \in keep |-> nodes[p]]

(* QuadTree.remove without the update of the swapped item's location. *)
QuadTreeRemoveKeepLocation(qt, id) ==
    IF id \notin DOMAIN qt.itemLocations THEN qt
    ELSE LET location == qt.itemLocations[id]
             path == location[1]
             index == location[2]
             rest == DOMAIN qt.itemLocations \ {id}
             relocate(items) ==
                 [nodes |-> NodePrune([qt.nodes EXCEPT ![path] = items], path),
                  itemLocations |-> [k \in rest |-> qt.itemLocations[k]]]
         IN  relocate(swapRemove(qt.nodes[path], index))

QuadTreeRemove(qt, id) ==
    IF id \notin DOMAIN qt.itemLocations THEN qt
    ELSE LET location == qt.itemLocations[id]
             path == location[1]
             index == location[2]
             rest == DOMAIN qt.itemLocations \ {id}
             relocate(items) ==
                 [nodes |-> NodePrune([qt.nodes EXCEPT ![path] = items], path),
                  itemLocations |-> [k \in rest |->
                                        IF Len(items) >= index /\ k = items[index] THEN location
                                        ELSE qt.itemLocations[k]]]
         IN  relocate(swapRemove(qt.nodes[path], index))

QuadTreeUpdate(qt, id, itemBounds) ==
    LET insert(removed) == QuadTreeInsert(removed, id, itemBounds)
    IN  insert(QuadTreeRemove(qt, id))

(* QuadTreeNode.getAll without its loop over the children. *)
NodeGetAllOwn(nodes, path) ==
    nodes[path]

RECURSIVE NodeGetAll(_, _)
NodeGetAll(nodes, path) ==
    LET child(i) == IF Append(path, i) \in DOMAIN nodes THEN NodeGetAll(nodes, Append(path, i)) ELSE <<>>
    IN  nodes[path] \o child(0) \o child(1) \o child(2) \o child(3)

RECURSIVE NodeGet(_, _, _, _)
NodeGet(nodes, bd, path, bounds) ==
    LET own == SelectSeq(nodes[path], LAMBDA k : AABBIntersects(bd[k].bounds, bounds))
        visit(c, childBounds) ==
            IF AABBContains(bounds, childBounds) THEN NodeGetAll(nodes, c)
            ELSE IF AABBIntersects(bounds, childBounds) THEN NodeGet(nodes, bd, c, bounds)
            ELSE <<>>
        child(i) ==
            IF Append(path, i) \notin DOMAIN nodes THEN <<>>
            ELSE visit(Append(path, i), NodeBounds(Append(path, i)))
    IN  own \o child(0) \o child(1) \o child(2) \o child(3)

(* QuadTree.get(bounds): ids in the order the traversal pushes them. *)
QuadTreeGet(qt, bd, bounds) ==
    NodeGet(qt.nodes, bd, <<>>, bounds)

(* ----------------------------- GJK and EPA ---------------------------- *)

Sign(n) ==
    IF n > 0 THEN 1 ELSE IF n < 0 THEN -1 ELSE 0

(* v scaled by a positive factor to coprime integer coordinates.  The    *)
(* narrow phase uses a search direction only through the sign of dot      *)
(* products and through normalise(), so the factor does not matter.       *)
Primitive(v) ==
    LET reduce(X, Y, g) ==
            IF g = 0 THEN Vec2Zero ELSE Vec2(I(X \div g), I(Y \div g))
        scale(X, Y) ==
            reduce(X, Y, GCD(AbsInt(X), AbsInt(Y)))
        lift(g1) ==
            scale(v.x[1] * (v.y[2] \div g1), v.y[1] * (v.x[2] \div g1))
    IN  lift(GCD(v.x[2], v.y[2]))

(* Vec2.tripleCross(v1, v2, v3) = (v1 x v2) x v3 = z * (-v3.y, v3.x) with *)
(* z = v1 x v2, kept as a direction.                                       *)
tripleCross(v1, v2, v3) ==
    LET turn(z) == Primitive(Vec2(Times(I(-z), v3.y), Times(I(z), v3.x)))
    IN  turn(Sign(Vec2Cross(v1, v2)[1]))

IsZero(v) ==
    v.x[1] = 0 /\ v.y[1] = 0

RECURSIVE FurthestFrom(_, _, _, _, _)
FurthestFrom(points, direction, i, best, bestPoint) ==
    LET compare(projection) ==
            IF Gt(projection, best)
            THEN FurthestFrom(points, direction, i + 1, projection, points[i])
            ELSE FurthestFrom(points, direction, i + 1, best, bestPoint)
    IN  IF i > Len(points) THEN bestPoint
        ELSE compare(Vec2Dot(points[i], direction))

(* Polygon.getFurthestPoint.  The scan starts from -Number.MAX_VALUE,     *)
(* which the projection of the first point always exceeds.                *)
getFurthestPoint(points, direction) ==
    FurthestFrom(points, direction, 2, Vec2Dot(points[1], direction), points[1])

MinkowskiDiff(shapeA, shapeB, direction) ==
    LET diff(a, b) == [a |-> a, b |-> b, result |-> Vec2Sub(a, b)]
    IN  diff(getFurthestPoint(shapeA, direction), getFurthestPoint(shapeB, Vec2Neg(direction)))

(* Number of passes of the while (true) loop of GJK that are followed. *)
GjkMaxIterations ==
    12

checkSimplexLine(simplex) ==
    LET a == simplex[2].result
        b == simplex[1].result
        ao == Vec2Neg(a)
        pick(ab, normal) ==
            [done |-> FALSE, simplex |-> simplex,
             direction |-> IF IsZero(normal) THEN Vec2Perpendicular(ab) ELSE normal]
        cross(ab) == pick(ab, tripleCross(ab, ao, ab))
    IN  cross(Vec2Sub(b, a))

checkSimplexTriangle(simplex) ==
    LET a == simplex[3].result
        b == simplex[2].result
        c == simplex[1].result
        ao == Vec2Neg(a)
        region(abNormal, acNormal) ==
            IF Gt(Vec2Dot(abNormal, ao), Zero)
            THEN [done |-> FALSE, simplex |-> <<simplex[2], simplex[3]>>, direction |-> abNormal]
            ELSE IF Gt(Vec2Dot(acNormal, ao), Zero)
            THEN [done |-> FALSE, simplex |-> <<simplex[1], simplex[3]>>, direction |-> acNormal]
            ELSE [done |-> TRUE, simplex |-> simplex, direction |-> Vec2Zero]
        normals(ab, ac) == region(tripleCross(ac, ab, ab), tripleCross(ab, ac, ac))
    IN  normals(Vec2Sub(b, a), Vec2Sub(c, a))

checkSimplex(simplex) ==
    IF Len(simplex) = 2 THEN checkSimplexLine(simplex) ELSE checkSimplexTriangle(simplex)

RECURSIVE GjkLoop(_, _, _, _, _)
GjkLoop(shapeA, shapeB, simplex, direction, n) ==
    LET next(r) ==
            IF r.done THEN [collision |-> TRUE, simplex |-> r.simplex, looping |-> FALSE]
            ELSE GjkLoop(shapeA, shapeB, r.simplex, r.direction, n - 1)
        support(point) ==
            IF Lt(Vec2Dot(point.result, direction), Zero)
            THEN [collision |-> FALSE, simplex |-> <<>>, looping |-> FALSE]
            ELSE next(checkSimplex(Append(simplex, point)))
    IN  IF n = 0 THEN [collision |-> FALSE, simplex |-> <<>>, looping |-> TRUE]
        ELSE support(MinkowskiDiff(shapeA, shapeB, direction))

GJK(shapeA, shapeB) ==
    LET start(first) ==
            GjkLoop(shapeA, shapeB, <<first>>, Primitive(Vec2Neg(first.result)), GjkMaxIterations)
        aim(d0) ==
            start(MinkowskiDiff(shapeA, shapeB, IF IsZero(d0) THEN Vec2(I(1), d0.y) ELSE d0))
    IN  aim(Primitive(Vec2Sub(PolygonGetCentre(shapeA), PolygonGetCentre(shapeB))))

(* An edge of the polytope: nrm is the outward normal before normalise()  *)
(* as a direction, num = max(0, nrm . a) and len2 = |nrm|^2, so that the   *)
(* edge's distance to the origin is num / sqrt(len2).                      *)
EpaEdge(simplex, i) ==
    LET j == (i % Len(simplex)) + 1
        a == simplex[i].result
        b == simplex[j].result
        oa == a
        edge(nrm) ==
            [i |-> i, j |-> j, nrm |-> nrm,
             num |-> MaxQ(Zero, Vec2Dot(nrm, a)),
             len2 |-> IF IsZero(nrm) THEN I(1) ELSE MagnitudeSquared(nrm)]
        normal(ab, n0) ==
            edge(IF IsZero(n0) THEN Primitive(Vec2Perpendicular(ab)) ELSE n0)
        cross(ab) == normal(ab, tripleCross(ab, oa, ab))
    IN  cross(Vec2Sub(b, a))

(* e1.num / sqrt(e1.len2) < e2.num / sqrt(e2.len2), decided on squares. *)
DistLess(e1, e2) ==
    LET squares(r) == r[1] * r[1] * e2.len2[1] < r[2] * r[2] * e1.len2[1]
    IN  IF e1.len2 = e2.len2 THEN Lt(e1.num, e2.num)
        ELSE IF e2.num = Zero THEN FALSE
        ELSE IF e1.num = Zero THEN TRUE
        ELSE squares(Over(e1.num, e2.num))

(* The edge the scan ends with: an edge replaces the closest one so far  *)
(* only on distance < minDistance, so it is the first edge that is closer  *)
(* than every edge before it and that no later edge undercuts.             *)
EpaClosestEdge(simplex) ==
    LET first(edges) ==
            edges[CHOOSE i \in 1..Len(simplex) :
                     /\ \A h \in 1..(i - 1) : DistLess(edges[i], edges[h])
                     /\ \A k \in (i + 1)..Len(simplex) : ~DistLess(edges[k], edges[i])]
    IN  first(<<>> \o [i \in 1..Len(simplex) |-> EpaEdge(simplex, i)])

(* Math.abs(distance - minDistance) < 1e-3 for distance = u / |nrm| and   *)
(* minDistance = num / |nrm|.                                              *)
EpaConverged(e, u) ==
    LET taxi == I(AbsInt(e.nrm.x[1]) + AbsInt(e.nrm.y[1]))
        below(d1000) ==
            \/ d1000 = Zero
            \/ /\ Lt(d1000, taxi)
               /\ d1000[1] * d1000[1] < d1000[2] * d1000[2] * e.len2[1]
    IN  below(Times(AbsQ(Minus(u, e.num)), I(1000)))

IsAxis(nrm) ==
    nrm.x[1] = 0 \/ nrm.y[1] = 0

(* The return of EPA once the closest edge e has converged: u is the     *)
(* support distance along e.nrm, sa and sb the ends of the edge.           *)
EpaContactA(sa, sb, edge) ==
    IF Lt(MagnitudeSquared(Vec2Sub(sb.a, sa.a)), I(1)) THEN sa.a
    ELSE Vec2Add(sa.a, Vec2MulScalar(edge, Over(Neg(Vec2Dot(sa.result, edge)),
                                                 MagnitudeSquared(edge))))

EpaReturn(minNormal, mtv, distance, contactA) ==
    [failed |-> FALSE, exact |-> IsAxis(minNormal),
     normal |-> minNormal, tangent |-> Vec2Perpendicular(minNormal),
     mtv |-> mtv, depth |-> distance,
     worldContactA |-> contactA, worldContactB |-> Vec2Sub(contactA, mtv)]

EpaResult(simplex, e, u) ==
    EpaReturn(e.nrm, Vec2MulScalar(e.nrm, u), u,
              EpaContactA(simplex[e.i], simplex[e.j],
                          Vec2Sub(simplex[e.j].result, simplex[e.i].result)))

EpaInsert(simplex, i, point) ==
    SubSeq(simplex, 1, i) \o <<point>> \o SubSeq(simplex, i + 1, Len(simplex))

(* One pass of the for loop of EPA once the closest edge e and its        *)
(* support point are known: the return, or the splice.                     *)
EpaSupport(shapeA, shapeB, simplex, e, point) ==
    LET test(u) ==
            IF EpaConverged(e, u)
            THEN [returned |-> TRUE, simplex |-> simplex, result |-> EpaResult(simplex, e, u)]
            ELSE [returned |-> FALSE, simplex |-> EpaInsert(simplex, e.i, point)]
    IN  test(Vec2Dot(e.nrm, point.result))

EpaEdgeStep(shapeA, shapeB, simplex, e) ==
    EpaSupport(shapeA, shapeB, simplex, e, MinkowskiDiff(shapeA, shapeB, e.nrm))

(* One pass of the for loop; no pass follows the return. *)
EpaPass(shapeA, shapeB, s) ==
    IF s.returned THEN s
    ELSE EpaEdgeStep(shapeA, shapeB, s.simplex, EpaClosestEdge(s.simplex))

(* Up to n passes of the loop from the state s: the first n \div 2 of     *)
(* them, then the others.                                                  *)
RECURSIVE EpaLoop(_, _, _, _)
EpaLoop(shapeA, shapeB, s, n) ==
    IF s.returned \/ n = 0 THEN s
    ELSE IF n = 1 THEN EpaPass(shapeA, shapeB, s)
    ELSE EpaLoop(shapeA, shapeB, EpaLoop(shapeA, shapeB, s, n \div 2), n - (n \div 2))

(* EPA(shapeA, shapeB, simplex): 100 passes, then the throw. *)
EPA(shapeA, shapeB, simplex) ==
    LET end(s) == IF s.returned THEN s.result ELSE [failed |-> TRUE]
    IN  end(EpaLoop(shapeA, shapeB, [returned |-> FALSE, simplex |-> simplex], 100))

(* ------------------------- Contact and Collision ---------------------- *)

(* Contact.updateRestitutionBias; the threshold is -0.1. *)
updateRestitutionBias(contact, bodyA, bodyB, normal) ==
    LET relativeVelocity == Vec2Sub(getVelocityAtPoint(bodyB, contact.localPosB),
                                    getVelocityAtPoint(bodyA, contact.localPosA))
        bias(relativeVelocityDotNormal) ==
            IF Lt(relativeVelocityDotNormal, Q(-1, 10))
            THEN Times(Neg(Times(bodyA.restitution, bodyB.restitution)), relativeVelocityDotNormal)
            ELSE Zero
    IN  [contact EXCEPT !.originalRestitutionBias = bias(Vec2Dot(relativeVelocity, normal))]

Contact(bodyA, bodyB, worldPosA, worldPosB, normal, tangent) ==
    LET effectiveMass(linear, radiusA, radiusB) ==
            Over(I(1), Plus(Plus(linear,
                 Times(bodyA.inverseAngularMass, Times(radiusA, radiusA))),
                 Times(bodyB.inverseAngularMass, Times(radiusB, radiusB))))
        construct(localPosA, localPosB, linear) ==
            [worldPosA |-> worldPosA,
             worldPosB |-> worldPosB,
             localPosA |-> localPosA,
             localPosB |-> localPosB,
             accumulatedNormalMagnitude |-> Zero,
             accumulatedTangentMagnitude |-> Zero,
             originalRestitutionBias |-> Zero,
             effectiveMassNormal |->
                 effectiveMass(linear, Vec2Cross(localPosA, normal), Vec2Cross(localPosB, normal)),
             effectiveMassTangent |->
                 effectiveMass(linear, Vec2Cross(localPosA, tangent), Vec2Cross(localPosB, tangent))]
    IN  updateRestitutionBias(construct(Vec2Sub(worldPosA, bodyA.position),
                                        Vec2Sub(worldPosB, bodyB.position),
                                        Plus(bodyA.inverseMass, bodyB.inverseMass)),
                              bodyA, bodyB, normal)

CollisionManifold(normal, mtv, depth, contacts) ==
    [normal |-> normal, tangent |-> Vec2Perpendicular(normal), depth |-> depth,
     mtv |-> mtv, contacts |-> contacts]

(* The key bodyA.id * 1e10 + bodyB.id, kept as its two digit groups. *)
CollisionId(idA, idB) ==
    <<idA, idB>>

Collision(bodyA, bodyB, manifold) ==
    [id |-> CollisionId(bodyA.id, bodyB.id),
     bodyA |-> bodyA.id,
     bodyB |-> bodyB.id,
     restitution |-> Times(bodyA.restitution, bodyB.restitution),
     friction |-> Times(Plus(bodyA.friction, bodyB.friction), Q(1, 2)),
     manifold |-> manifold]

(* checkCollision with the error of EPA caught and the pair reported as   *)
(* not colliding.                                                          *)
checkCollisionCaught(bodyA, bodyB) ==
    LET hit(epaResult, newContactPoint) ==
            [kind |-> "hit", exact |-> epaResult.exact,
             collision |-> Collision(bodyA, bodyB,
                                     CollisionManifold(epaResult.normal, epaResult.mtv,
                                                       epaResult.depth, <<newContactPoint>>))]
        expand(epaResult) ==
            IF epaResult.failed THEN [kind |-> "none"]
            ELSE hit(epaResult, Contact(bodyA, bodyB, epaResult.worldContactA,
                                        epaResult.worldContactB, epaResult.normal,
                                        epaResult.tangent))
        test(gjkResult) ==
            IF gjkResult.looping THEN [kind |-> "loop"]
            ELSE IF ~gjkResult.collision THEN [kind |-> "none"]
            ELSE expand(EPA(bodyA.collider, bodyB.collider, gjkResult.simplex))
    IN  test(GJK(bodyA.collider, bodyB.collider))

(* PhysicsEngine.checkCollision.  kind is "none" for the undefined        *)
(* result, "hit" for a Collision, "throw" when EPA throws and "loop"      *)
(* when GJK has not returned after GjkMaxIterations passes.               *)
checkCollision(bodyA, bodyB) ==
    LET hit(epaResult, newContactPoint) ==
            [kind |-> "hit", exact |-> epaResult.exact,
             collision |-> Collision(bodyA, bodyB,
                                     CollisionManifold(epaResult.normal, epaResult.mtv,
                                                       epaResult.depth, <<newContactPoint>>))]
        expand(epaResult) ==
            IF epaResult.failed THEN [kind |-> "throw"]
            ELSE hit(epaResult, Contact(bodyA, bodyB, epaResult.worldContactA,
                                        epaResult.worldContactB, epaResult.normal,
                                        epaResult.tangent))
        test(gjkResult) ==
            IF gjkResult.looping THEN [kind |-> "loop"]
            ELSE IF ~gjkResult.collision THEN [kind |-> "none"]
            ELSE expand(EPA(bodyA.collider, bodyB.collider, gjkResult.simplex))
    IN  test(GJK(bodyA.collider, bodyB.collider))

(* The "remove invalid points" loop of checkCollisions, i from last to 1. *)
RECURSIVE RemoveInvalid(_, _, _, _, _)
RemoveInvalid(contacts, i, bodyA, bodyB, normal) ==
    LET contact == contacts[i]
        drop(currentWorldPosA, currentWorldPosB) ==
            \/ ~Le(Vec2Dot(normal, Vec2Sub(currentWorldPosB, currentWorldPosA)), Q(1, 100))
            \/ Gt(MagnitudeSquared(Vec2Sub(contact.worldPosA, currentWorldPosA)), I(4))
            \/ Gt(MagnitudeSquared(Vec2Sub(contact.worldPosB, currentWorldPosB)), I(4))
    IN  IF i = 0 THEN contacts
        ELSE IF drop(Vec2Add(bodyA.position, contact.localPosA),
                     Vec2Add(bodyB.position, contact.localPosB))
        THEN RemoveInvalid(swapRemove(contacts, i), i - 1, bodyA, bodyB, normal)
        ELSE RemoveInvalid(contacts, i - 1, bodyA, bodyB, normal)

(* The duplicate test answering yes for every new contact. *)
IsDuplicateAlways(contacts, newContact) ==
    TRUE

(* The duplicate test asking for closeness on localPosA and on localPosB. *)
IsDuplicateOnBoth(contacts, newContact) ==
    \E k \in 1..Len(contacts) :
        /\ Lt(MagnitudeSquared(Vec2Sub(newContact.localPosA, contacts[k].localPosA)), I(4))
        /\ Lt(MagnitudeSquared(Vec2Sub(newContact.localPosB, contacts[k].localPosB)), I(4))

IsDuplicate(contacts, newContact) ==
    \E k \in 1..Len(contacts) :
        \/ Lt(MagnitudeSquared(Vec2Sub(newContact.localPosA, contacts[k].localPosA)), I(4))
        \/ Lt(MagnitudeSquared(Vec2Sub(newContact.localPosB, contacts[k].localPosB)), I(4))

(* Index of the first contact that attains the strictly largest key, or   *)
(* 1 when no key exceeds 0 (the scans start from contacts[0] and 0).       *)
RECURSIVE ArgMaxFrom(_, _, _, _)
ArgMaxFrom(keys, i, best, bestIndex) ==
    IF i > Len(keys) THEN bestIndex
    ELSE IF Gt(keys[i], best) THEN ArgMaxFrom(keys, i + 1, keys[i], i)
    ELSE ArgMaxFrom(keys, i + 1, best, bestIndex)

ReduceToTwo(contacts) ==
    LET depths == [k \in 1..Len(contacts) |->
                      MagnitudeSquared(Vec2Sub(contacts[k].worldPosB, contacts[k].worldPosA))]
        furthest(deepestContact) ==
            <<deepestContact,
              contacts[ArgMaxFrom([k \in 1..Len(contacts) |->
                                      MagnitudeSquared(Vec2Sub(contacts[k].worldPosA,
                                                               deepestContact.worldPosA))],
                                  1, Zero, 1)]>>
    IN  IF Len(contacts) <= 2 THEN contacts
        ELSE furthest(contacts[ArgMaxFrom(depths, 1, Zero, 1)])

(* The manifold of a re-confirmed collision: the cached contacts, pruned, *)
(* plus the new contact unless it duplicates one, cut down to two.         *)
MergeManifold(collision, existingCollision, bodyA, bodyB) ==
    LET newContact == collision.manifold.contacts[1]
        old == existingCollision.manifold.contacts
        push(kept) ==
            ReduceToTwo(IF IsDuplicate(kept, newContact) THEN kept ELSE Append(kept, newContact))
    IN  [collision EXCEPT !.manifold.contacts =
            push(RemoveInvalid(old, Len(old), bodyA, bodyB, collision.manifold.normal))]

(* ------------------------------- engine ------------------------------- *)

(* Bounds of the exploration. *)
MaxTime ==
    4

MaxExternalOps ==
    1

(* PhysicsEngineConfig values handed to the constructor: one step per     *)
(* second so that fixedTimeStep = 1; a world with gravity, one without,    *)
(* and one without gravity whose solver makes a single velocity pass.      *)
Configs ==
    {[gravity |-> I(g), stepsPerSecond |-> I(1), velocityIterations |-> 2,
      sleepLinearThreshold |-> Q(3, 20), sleepAngularThreshold |-> Q(3, 20),
      sleepTimeThreshold |-> I(2)] : g \in {0, 1}}
    \cup {[gravity |-> Zero, stepsPerSecond |-> I(1), velocityIterations |-> 1,
            sleepLinearThreshold |-> Q(3, 20), sleepAngularThreshold |-> Q(3, 20),
            sleepTimeThreshold |-> I(2)]}

BodyIds ==
    0..3

(* The bodies of the single-pass world: the slab, two triangles at rest    *)
(* above it and a box away from both, astride the right edge of the        *)
(* world.  The second triangle is three units below the place where one    *)
(* of its edges lies along an edge of the first.                           *)
Wedges ==
    LET wedge(id, points) ==
            FromConvexPolygon(id, points, PolygonGetCentre(points), I(1), Infinity, Zero, Zero, FALSE)
    IN  [id \in BodyIds |->
            CASE id = 0 -> FromRect(0, I(16), I(8), Vec2(I(8), I(12)), I(1), Infinity, Zero, Q(1, 2), TRUE)
              [] id = 1 -> wedge(1, <<Vec2(I(4), I(2)), Vec2(I(6), I(4)), Vec2(I(4), I(6))>>)
              [] id = 2 -> wedge(2, <<Vec2(I(5), I(6)), Vec2(I(8), I(5)), Vec2(I(6), I(7))>>)
              [] id = 3 -> FromRect(3, I(2), I(2), Vec2(I(16), I(3)), I(1), Infinity, Zero, Zero, FALSE)]

(* The bodies the caller constructs, in the order of their ids.  In the    *)
(* two-pass worlds: a fixed slab over the lower half of the world and      *)
(* three boxes.  The first two boxes hang side by side just above the      *)
(* slab and overlap each other, the first one drifting away to the left    *)
(* (world with gravity) or into the second one (world without gravity);    *)
(* the third box overlaps the second one from the right (world with        *)
(* gravity) or is embedded in the slab (world without gravity).            *)
Pool(cfg) ==
    LET box(id, x, y) == FromRect(id, I(2), I(2), Vec2(x, y), I(1), Infinity, Zero, Zero, FALSE)
    IN  IF cfg.velocityIterations = 1 THEN Wedges
        ELSE
        [id \in BodyIds |->
            CASE id = 0 -> FromRect(0, I(16), I(8), Vec2(I(8), I(12)), I(1), Infinity, Zero, Q(1, 2), TRUE)
              [] id = 1 -> [box(1, I(5), Q(13, 2)) EXCEPT
                               !.linearVelocity = Vec2(IF cfg.gravity = Zero THEN Q(3, 8) ELSE Q(-3, 8), Zero)]
              [] id = 2 -> box(2, Q(13, 2), Q(13, 2))
              [] id = 3 -> IF cfg.gravity = Zero THEN box(3, I(5), I(11)) ELSE box(3, I(8), Q(13, 2))]

DtChoices ==
    {Q(1, 2), Q(3, 2)}

TranslateChoices ==
    {Vec2(I(0), I(-3))}

VARIABLES
    config,        \* engine.config
    body,          \* id -> RigidBody object
    added,         \* ids the caller has passed to addBody and not to removeBody
    bodies,        \* engine.bodies
    quadtree,      \* engine.quadtree
    collisions,    \* engine.collisions, in Map insertion order
    islands,       \* engine.islands: references to Island objects
    islandBodies,  \* Island object -> Island.bodies
    timeElapsed,   \* engine.timeElapsed
    stepsElapsed,  \* engine.stepsElapsed
    pc,            \* position inside update() / step()
    upd,           \* locals of update(): deltaSeconds, deltaSteps, i
    ops,           \* the calls made besides update() once the clock runs, and
                   \* every removeBody / translate / rotate call, by name
    atStepStart,   \* the bodies as they were when the current step began
    narrowCalls,   \* <<idA, idB>> of each checkCollision call of the step
    confirmed      \* what each confirmed contact of the step found

vars ==
    <<config, body, added, bodies, quadtree, collisions, islands, islandBodies, timeElapsed,
      stepsElapsed, pc, upd, ops, atStepStart, narrowCalls, confirmed>>

fixedTimeStep ==
    Over(I(1), config.stepsPerSecond)

NoUpdate ==
    [deltaSeconds |-> Zero, deltaSteps |-> 0, i |-> 0]

Init ==
    /\ config \in Configs
    /\ body = Pool(config)
    /\ added = {}
    /\ bodies = <<>>
    /\ quadtree = EmptyQuadTree
    /\ collisions = <<>>
    /\ islands = <<>>
    /\ islandBodies = <<>>
    /\ timeElapsed = Zero
    /\ stepsElapsed = 0
    /\ pc = "idle"
    /\ upd = NoUpdate
    /\ ops = <<>>
    /\ atStepStart = <<>>
    /\ narrowCalls = <<>>
    /\ confirmed = <<>>

Range(f) ==
    {f[k] : k \in DOMAIN f}

(* One pass of the first loop of step(): gravity, integrate, wrap-around  *)
(* and the broad-phase update of a moving body.                            *)
StepBody(b, qt, deltaSeconds) ==
    LET track(b3) ==
            [b |-> b3,
             qt |-> IF \/ Gt(MagnitudeSquared(b3.linearVelocity), Zero)
                       \/ Gt(AbsQ(b3.angularVelocity), Zero)
                    THEN QuadTreeUpdate(qt, b3.id, b3.bounds) ELSE qt]
        wrap(b2) ==
            LET x1 == IF Gt(b2.bounds.min.x, worldBounds.max.x) THEN Neg(b2.bounds.max.x) ELSE Zero
                y1 == IF Gt(b2.bounds.min.y, worldBounds.max.y) THEN Neg(b2.bounds.max.y) ELSE Zero
                x2 == IF Lt(b2.bounds.max.x, Zero) THEN Minus(worldBounds.max.x, b2.bounds.min.x) ELSE x1
                y2 == IF Lt(b2.bounds.max.y, Zero) THEN Minus(worldBounds.max.y, b2.bounds.min.y) ELSE y1
            IN  track(translate(b2, Vec2(x2, y2)))
    IN  IF b.fixed \/ b.sleeping THEN [b |-> b, qt |-> qt]
        ELSE wrap(integrate([b EXCEPT !.linearVelocity.y = Plus(@, Times(config.gravity, deltaSeconds))],
                            deltaSeconds))

RECURSIVE IntegrateAll(_, _, _, _)
IntegrateAll(bd, qt, k, deltaSeconds) ==
    LET next(r) == IntegrateAll([bd EXCEPT ![bodies[k]] = r.b], r.qt, k + 1, deltaSeconds)
    IN  IF k > Len(bodies) THEN [bd |-> bd, qt |-> qt]
        ELSE next(StepBody(bd[bodies[k]], qt, deltaSeconds))

(* Island objects are named by positive integers; a new Island() takes    *)
(* the least name no reference holds.                                      *)
NewIsland(heap) ==
    CHOOSE k \in 1..(Cardinality(DOMAIN heap) + 1) : k \notin DOMAIN heap

(* body.island references that survive: objects no reference reaches are  *)
(* dropped from the heap.                                                  *)
Reachable(heap, bd, list) ==
    [k \in {j \in DOMAIN heap : (\E b \in DOMAIN bd : bd[b].island = j) \/ j \in Range(list)} |-> heap[k]]

(* RigidBody.addToIsland without its test of this.fixed. *)
addToIslandFixedToo(st, b, island) ==
    [st EXCEPT !.bd[b].island = island,
               !.heap[island] = @ \cup {b}]

(* RigidBody.addToIsland *)
addToIsland(st, b, island) ==
    IF st.bd[b].fixed THEN st
    ELSE [st EXCEPT !.bd[b].island = island,
                    !.heap[island] = @ \cup {b}]

(* Island.merge without the island.clear() of its last line. *)
mergeKeepSource(st, into, from) ==
    [st EXCEPT !.bd = [b \in DOMAIN st.bd |->
                          IF b \in st.heap[from] THEN [st.bd[b] EXCEPT !.island = into] ELSE st.bd[b]],
               !.heap = [st.heap EXCEPT ![into] = @ \cup st.heap[from]]]

(* Island.merge with its loop left out. *)
mergeNothing(st, into, from) ==
    st

(* Island.merge: this = into, island = from. *)
merge(st, into, from) ==
    [st EXCEPT !.bd = [b \in DOMAIN st.bd |->
                          IF b \in st.heap[from] THEN [st.bd[b] EXCEPT !.island = into] ELSE st.bd[b]],
               !.heap = [st.heap EXCEPT ![into] = @ \cup st.heap[from], ![from] = {}]]

(* Lines 159-160 with the first assignment left out. *)
wakeSecond(bd, a, b) ==
    [bd EXCEPT ![b].sleeping = FALSE]

(* Lines 159-160 of checkCollisions: bodyA.sleeping = false;               *)
(* bodyB.sleeping = false.                                                 *)
wake(bd, a, b) ==
    [bd EXCEPT ![a].sleeping = FALSE, ![b].sleeping = FALSE]

(* Lines 158-175 of checkCollisions for a confirmed pair. *)
WakeAndLink(bd, heap, list, a, b) ==
    LET fresh(st, newIsland) ==
            [addToIsland(addToIsland([st EXCEPT !.heap = [k \in DOMAIN heap \cup {newIsland} |->
                                                            IF k = newIsland THEN {} ELSE heap[k]]],
                                     a, newIsland),
                         b, newIsland)
             EXCEPT !.list = Append(list, newIsland)]
        link(st, ia, ib) ==
            IF ia # 0 /\ ib # 0
            THEN IF ia # ib THEN merge(st, ia, ib) ELSE st
            ELSE IF ia # 0 THEN addToIsland(st, b, ia)
            ELSE IF ib # 0 THEN addToIsland(st, a, ib)
            ELSE fresh(st, NewIsland(heap))
        join(woken) ==
            link([bd |-> woken, heap |-> heap, list |-> list], woken[a].island, woken[b].island)
    IN  join(wake(bd, a, b))

(* Map.get / Map.set / Map.delete on the insertion-ordered cache. *)
CacheIndex(cache, id) ==
    IF \E k \in 1..Len(cache) : cache[k].id = id
    THEN CHOOSE k \in 1..Len(cache) : cache[k].id = id
    ELSE 0

CacheSet(cache, collision) ==
    LET k == CacheIndex(cache, collision.id)
    IN  IF k = 0 THEN Append(cache, collision) ELSE [cache EXCEPT ![k] = collision]

(* The pair filter without its id test, and without its rest test. *)
FilteredAtRestOnly(bodyA, bodyB) ==
    (bodyA.fixed \/ bodyA.sleeping) /\ (bodyB.fixed \/ bodyB.sleeping)

FilteredByIdOnly(bodyA, bodyB) ==
    bodyB.id <= bodyA.id

(* Line 152 of checkCollisions: the pairs the inner loop skips. *)
Filtered(bodyA, bodyB) ==
    \/ (bodyA.fixed \/ bodyA.sleeping) /\ (bodyB.fixed \/ bodyB.sleeping)
    \/ bodyB.id <= bodyA.id

(* ------------------------------- solver ------------------------------- *)

(* Collision.solvePositionLinearOnly; the slop is 0.1. *)
solvePositionLinearOnly(bd, c) ==
    LET bodyA == bd[c.bodyA]
        bodyB == bd[c.bodyB]
        move(effectiveMass, correction) ==
            [bd EXCEPT ![c.bodyA] =
                           translate(@, Vec2MulScalar(correction,
                                                      Times(Neg(effectiveMass), bodyA.inverseMass))),
                       ![c.bodyB] =
                           translate(@, Vec2MulScalar(correction,
                                                      Times(effectiveMass, bodyB.inverseMass)))]
    IN  move(Over(I(1), Plus(bodyA.inverseMass, bodyB.inverseMass)),
             Vec2MulScalar(c.manifold.normal, MaxQ(Zero, Minus(c.manifold.depth, Q(1, 10)))))

(* The pair of applyImpulse calls with the one on bodyA left out. *)
ApplyPairToB(bd, c, contact, impulse) ==
    [bd EXCEPT ![c.bodyB] = applyImpulse(@, impulse, contact.localPosB)]

(* bodyA.applyImpulse(-impulse, localPosA); bodyB.applyImpulse(impulse, localPosB) *)
ApplyPair(bd, c, contact, impulse) ==
    [bd EXCEPT ![c.bodyA] = applyImpulse(@, Vec2Neg(impulse), contact.localPosA),
               ![c.bodyB] = applyImpulse(@, impulse, contact.localPosB)]

RECURSIVE applyAccumulatedImpulses(_, _, _)
applyAccumulatedImpulses(bd, c, k) ==
    LET contact == c.manifold.contacts[k]
    IN  IF k > Len(c.manifold.contacts) THEN bd
        ELSE applyAccumulatedImpulses(
                 ApplyPair(bd, c, contact,
                           Vec2Add(Vec2MulScalar(c.manifold.normal, contact.accumulatedNormalMagnitude),
                                   Vec2MulScalar(c.manifold.tangent, contact.accumulatedTangentMagnitude))),
                 c, k + 1)

RelativeVelocity(bd, c, contact) ==
    Vec2Sub(getVelocityAtPoint(bd[c.bodyB], contact.localPosB),
            getVelocityAtPoint(bd[c.bodyA], contact.localPosA))

(* The normal-impulse loop of Collision.solveVelocity. *)
RECURSIVE SolveNormal(_, _, _)
SolveNormal(bd, c, k) ==
    LET contact == c.manifold.contacts[k]
        apply(newAccumulatedMagnitude) ==
            SolveNormal(ApplyPair(bd, c, contact,
                                  Vec2MulScalar(c.manifold.normal,
                                                Minus(newAccumulatedMagnitude,
                                                      contact.accumulatedNormalMagnitude))),
                        [c EXCEPT !.manifold.contacts[k].accumulatedNormalMagnitude =
                                      newAccumulatedMagnitude],
                        k + 1)
        accumulate(impulseMagnitude) ==
            apply(MaxQ(Plus(contact.accumulatedNormalMagnitude, impulseMagnitude), Zero))
        impulse(relativeVelocityDotNormal) ==
            accumulate(Times(Neg(Minus(relativeVelocityDotNormal, contact.originalRestitutionBias)),
                             contact.effectiveMassNormal))
    IN  IF k > Len(c.manifold.contacts) THEN [bd |-> bd, c |-> c]
        ELSE impulse(Vec2Dot(RelativeVelocity(bd, c, contact), c.manifold.normal))

(* The tangent-impulse loop of Collision.solveVelocity. *)
RECURSIVE SolveTangent(_, _, _)
SolveTangent(bd, c, k) ==
    LET contact == c.manifold.contacts[k]
        apply(newAccumulatedMagnitude) ==
            SolveTangent(ApplyPair(bd, c, contact,
                                   Vec2MulScalar(c.manifold.tangent,
                                                 Minus(newAccumulatedMagnitude,
                                                       contact.accumulatedTangentMagnitude))),
                         [c EXCEPT !.manifold.contacts[k].accumulatedTangentMagnitude =
                                       newAccumulatedMagnitude],
                         k + 1)
        accumulate(impulseMagnitude, staticFrictionLimit) ==
            apply(clamp(Plus(contact.accumulatedTangentMagnitude, impulseMagnitude),
                        Neg(staticFrictionLimit), staticFrictionLimit))
        impulse(relativeVelocityDotTangent) ==
            accumulate(Times(Neg(relativeVelocityDotTangent), contact.effectiveMassTangent),
                       Times(contact.accumulatedNormalMagnitude, c.friction))
    IN  IF k > Len(c.manifold.contacts) THEN [bd |-> bd, c |-> c]
        ELSE impulse(Vec2Dot(RelativeVelocity(bd, c, contact), c.manifold.tangent))

solveVelocity(bd, c) ==
    LET tangent(n) == SolveTangent(n.bd, n.c, 1)
    IN  tangent(SolveNormal(bd, c, 1))

(* The first loop of resolveCollisions. *)
RECURSIVE Prepare(_, _, _)
Prepare(bd, cache, k) ==
    LET c == cache[k]
        bias(bd2) ==
            Prepare(bd2,
                    [cache EXCEPT ![k].manifold.contacts =
                        [j \in 1..Len(c.manifold.contacts) |->
                            updateRestitutionBias(c.manifold.contacts[j], bd2[c.bodyA], bd2[c.bodyB],
                                                  c.manifold.normal)]],
                    k + 1)
        warm(bd1) == bias(applyAccumulatedImpulses(bd1, c, 1))
    IN  IF k > Len(cache) THEN [bd |-> bd, cache |-> cache]
        ELSE warm(solvePositionLinearOnly(bd, c))

RECURSIVE VelocityPass(_, _, _)
VelocityPass(bd, cache, k) ==
    LET next(r) == VelocityPass(r.bd, [cache EXCEPT ![k] = r.c], k + 1)
    IN  IF k > Len(cache) THEN [bd |-> bd, cache |-> cache]
        ELSE next(solveVelocity(bd, cache[k]))

RECURSIVE VelocityIterations(_, _, _)
VelocityIterations(bd, cache, i) ==
    LET next(r) == VelocityIterations(r.bd, r.cache, i + 1)
    IN  IF i >= config.velocityIterations THEN [bd |-> bd, cache |-> cache]
        ELSE next(VelocityPass(bd, cache, 1))

resolveCollisions(bd, cache) ==
    LET iterate(p) == VelocityIterations(p.bd, p.cache, 0)
    IN  iterate(Prepare(bd, cache, 1))

(* ------------------------- sleep arbitration -------------------------- *)

IsStill(b) ==
    /\ Lt(MagnitudeSquared(b.linearVelocity),
          Times(config.sleepLinearThreshold, config.sleepLinearThreshold))
    /\ Lt(AbsQ(b.angularVelocity), config.sleepAngularThreshold)

(* Lines 100-127 of step() for one island with line 117 left out: a body  *)
(* over a threshold leaves minSleepTime as it is.                          *)
ArbitrateIslandKeepMin(bd, members, deltaSeconds) ==
    LET sleep(timed, minSleepTime) ==
            IF Ge(minSleepTime, config.sleepTimeThreshold)
            THEN [b \in DOMAIN bd |->
                     IF b \in members THEN [timed[b] EXCEPT !.sleeping = TRUE] ELSE timed[b]]
            ELSE timed
        least(timed, times) ==
            sleep(timed, IF times = {} THEN Infinity
                         ELSE CHOOSE t \in times : \A u \in times : Le(t, u))
        observe(timed) ==
            least(timed, {timed[b].timeStill : b \in {m \in members : IsStill(bd[m])}})
    IN  observe([b \in DOMAIN bd |->
                    IF b \notin members THEN bd[b]
                    ELSE IF IsStill(bd[b]) THEN [bd[b] EXCEPT !.timeStill = Plus(@, deltaSeconds)]
                    ELSE [bd[b] EXCEPT !.timeStill = Zero]])

(* Lines 100-127 of step() for one island.  minSleepTime starts at       *)
(* Number.MAX_VALUE, which exceeds every threshold, as Infinity does.      *)
ArbitrateIsland(bd, members, deltaSeconds) ==
    LET sleep(timed, minSleepTime) ==
            IF Ge(minSleepTime, config.sleepTimeThreshold)
            THEN [b \in DOMAIN bd |->
                     IF b \in members THEN [timed[b] EXCEPT !.sleeping = TRUE] ELSE timed[b]]
            ELSE timed
        least(timed, times) ==
            sleep(timed, IF times = {} THEN Infinity
                         ELSE CHOOSE t \in times : \A u \in times : Le(t, u))
        observe(timed) ==
            least(timed, {IF IsStill(bd[b]) THEN timed[b].timeStill ELSE Zero : b \in members})
    IN  observe([b \in DOMAIN bd |->
                    IF b \notin members THEN bd[b]
                    ELSE IF IsStill(bd[b]) THEN [bd[b] EXCEPT !.timeStill = Plus(@, deltaSeconds)]
                    ELSE [bd[b] EXCEPT !.timeStill = Zero]])

(* The loop over the islands of the list, from its k-th entry on. *)
RECURSIVE ArbitrateIslands(_, _, _, _, _)
ArbitrateIslands(bd, list, heap, k, deltaSeconds) ==
    IF k > Len(list) THEN bd
    ELSE ArbitrateIslands(ArbitrateIsland(bd, heap[list[k]], deltaSeconds), list, heap, k + 1,
                          deltaSeconds)

(* The loop over the islands followed by one more round over the bodies   *)
(* of the list that hold no island.                                        *)
ArbitrateLooseToo(bd, k, deltaSeconds) ==
    ArbitrateIsland(ArbitrateIslands(bd, islands, islandBodies, k, deltaSeconds),
                    {b \in Range(bodies) : ~bd[b].fixed /\ bd[b].island = 0}, deltaSeconds)

ArbitrateAll(bd, k, deltaSeconds) ==
    ArbitrateIslands(bd, islands, islandBodies, k, deltaSeconds)

(* ------------------------------ actions ------------------------------- *)

(* A call made by the application ends the record of the step before it:  *)
(* atStepStart is cleared.                                                 *)

(* addBody(body).  The caller adds the bodies in the order it built them; *)
(* a call made once the clock has started counts as an external call.      *)
AddBody(b) ==
    /\ pc = "idle"
    /\ b \notin added
    /\ \A k \in BodyIds : k < b => k \in added
    /\ \/ timeElapsed = Zero /\ ops' = ops
       \/ timeElapsed # Zero /\ Len(ops) < MaxExternalOps /\ ops' = Append(ops, "addBody")
    /\ added' = added \cup {b}
    /\ bodies' = Append(bodies, b)
    /\ quadtree' = QuadTreeInsert(quadtree, b, body[b].bounds)
    /\ atStepStart' = <<>>
    /\ UNCHANGED <<config, body, collisions, islands, islandBodies, timeElapsed, stepsElapsed, pc,
                   upd, narrowCalls, confirmed>>

(* removeBody(body), for a body of the engine or not *)
RemoveBody(b) ==
    /\ pc = "idle"
    /\ Len(ops) < MaxExternalOps
    /\ ops' = Append(ops, "removeBody")
    /\ added' = added \ {b}
    /\ bodies' = swapRemove(bodies, IndexOf(bodies, b))
    /\ quadtree' = QuadTreeRemove(quadtree, b)
    /\ atStepStart' = <<>>
    /\ UNCHANGED <<config, body, collisions, islands, islandBodies, timeElapsed, stepsElapsed, pc,
                   upd, narrowCalls, confirmed>>

(* body.translate(delta) called by the application between updates *)
Translate(b, delta) ==
    /\ pc = "idle"
    /\ Len(ops) < MaxExternalOps
    /\ ops' = Append(ops, "translate")
    /\ body' = [body EXCEPT ![b] = translate(@, delta)]
    /\ atStepStart' = <<>>
    /\ UNCHANGED <<config, added, bodies, quadtree, collisions, islands, islandBodies, timeElapsed,
                   stepsElapsed, pc, upd, narrowCalls, confirmed>>

(* body.rotate(PI / 2) called by the application between updates *)
Rotate(b) ==
    /\ pc = "idle"
    /\ Len(ops) < MaxExternalOps
    /\ ops' = Append(ops, "rotate")
    /\ body' = [body EXCEPT ![b] = rotate(@, 1)]
    /\ atStepStart' = <<>>
    /\ UNCHANGED <<config, added, bodies, quadtree, collisions, islands, islandBodies, timeElapsed,
                   stepsElapsed, pc, upd, narrowCalls, confirmed>>

(* update(deltaSeconds) up to the head of its for loop *)
Update(deltaSeconds) ==
    /\ pc = "idle"
    /\ Le(Plus(timeElapsed, deltaSeconds), I(MaxTime))
    /\ upd' = [deltaSeconds |-> deltaSeconds,
               deltaSteps |-> Floor(Over(timeElapsed, fixedTimeStep)) - stepsElapsed,
               i |-> 0]
    /\ pc' = "loop"
    /\ UNCHANGED <<config, body, added, bodies, quadtree, collisions, islands, islandBodies,
                   timeElapsed, stepsElapsed, ops, atStepStart, narrowCalls, confirmed>>


(* update() advancing its clock by the measured wall-clock time of the    *)
(* call (lines 59 and 63) in place of its argument.                        *)
UpdateReturnByClock ==
    /\ pc = "loop"
    /\ upd.i >= upd.deltaSteps
    /\ \E measured \in {upd.deltaSeconds, Plus(upd.deltaSeconds, Q(1, 2))} :
           timeElapsed' = Plus(timeElapsed, measured)
    /\ stepsElapsed' = stepsElapsed + upd.deltaSteps
    /\ pc' = "idle"
    /\ upd' = NoUpdate
    /\ atStepStart' = <<>>
    /\ narrowCalls' = <<>>
    /\ confirmed' = <<>>
    /\ UNCHANGED <<config, body, added, bodies, quadtree, collisions, islands, islandBodies, ops>>

(* the end of update(): the loop is over *)
UpdateReturn ==
    /\ pc = "loop"
    /\ upd.i >= upd.deltaSteps
    /\ timeElapsed' = Plus(timeElapsed, upd.deltaSeconds)
    /\ stepsElapsed' = stepsElapsed + upd.deltaSteps
    /\ pc' = "idle"
    /\ upd' = NoUpdate
    /\ atStepStart' = <<>>
    /\ narrowCalls' = <<>>
    /\ confirmed' = <<>>
    /\ UNCHANGED <<config, body, added, bodies, quadtree, collisions, islands, islandBodies, ops>>

(* step(): the loop over the bodies (gravity, integrate, wrap, update) *)
StepIntegrate ==
    /\ pc = "loop"
    /\ upd.i < upd.deltaSteps
    /\ LET finish(r) ==
               /\ body' = r.bd
               /\ quadtree' = r.qt
       IN  finish(IntegrateAll(body, quadtree, 1, fixedTimeStep))
    /\ pc' = "clear"
    /\ atStepStart' = body
    /\ narrowCalls' = <<>>
    /\ confirmed' = <<>>
    /\ UNCHANGED <<config, added, bodies, collisions, islands, islandBodies, timeElapsed,
                   stepsElapsed, upd, ops>>

(* step() with lines 92-95 left out. *)
StepKeepIslands ==
    /\ pc = "clear"
    /\ pc' = "check"
    /\ UNCHANGED <<config, body, added, bodies, quadtree, collisions, islands, islandBodies,
                   timeElapsed, stepsElapsed, upd, ops, atStepStart, narrowCalls, confirmed>>

(* step(): body.island = undefined for every body, islands.length = 0 *)
StepClearIslands ==
    /\ pc = "clear"
    /\ LET cleared == [b \in DOMAIN body |->
                          IF b \in Range(bodies) THEN [body[b] EXCEPT !.island = 0] ELSE body[b]]
       IN  /\ body' = cleared
           /\ islandBodies' = Reachable(islandBodies, cleared, <<>>)
    /\ islands' = <<>>
    /\ pc' = "check"
    /\ UNCHANGED <<config, added, bodies, quadtree, collisions, timeElapsed, stepsElapsed, upd,
                   ops, atStepStart, narrowCalls, confirmed>>

(* What a confirmed contact found: the pair and whether each body was     *)
(* neither fixed nor sleeping when the narrow phase returned.              *)
ContactRecord(bodyA, bodyB) ==
    [a |-> bodyA.id, b |-> bodyB.id,
     awakeA |-> ~(bodyA.fixed \/ bodyA.sleeping),
     awakeB |-> ~(bodyB.fixed \/ bodyB.sleeping)]

(* Lines 152-248 of checkCollisions: the body of the inner loop for the   *)
(* candidate pair (a, b).  st.status leaves "ok" when GJK does not return  *)
(* ("loop") or EPA throws ("throw").                                       *)
CheckPair(st, a, b) ==
    LET called == [st EXCEPT !.calls = Append(@, <<a, b>>)]
        store(linked, k, collision) ==
            [called EXCEPT
                !.bd = linked.bd,
                !.heap = linked.heap,
                !.list = linked.list,
                !.cache = CacheSet(st.cache, collision),
                !.resolved = IF k = 0 THEN @ ELSE swapRemove(@, IndexOf(@, collision.id)),
                !.confirmed = Append(@, ContactRecord(st.bd[a], st.bd[b]))]
        cached(r, k) ==
            store(WakeAndLink(st.bd, st.heap, st.list, a, b), k,
                  IF k = 0 THEN r.collision
                  ELSE MergeManifold(r.collision, st.cache[k], st.bd[a], st.bd[b]))
        narrow(r) ==
            IF r.kind = "none" THEN called
            ELSE IF r.kind # "hit" THEN [called EXCEPT !.status = r.kind]
            ELSE cached(r, CacheIndex(st.cache, r.collision.id))
    IN  IF Filtered(st.bd[a], st.bd[b]) THEN st
        ELSE narrow(checkCollision(st.bd[a], st.bd[b]))

(* The inner loop: for (const bodyB of this.quadtree.get(bodyA.bounds)) *)
RECURSIVE CheckCandidates(_, _, _, _)
CheckCandidates(st, a, results, bi) ==
    IF bi > Len(results) \/ st.status # "ok" THEN st
    ELSE CheckCandidates(CheckPair(st, a, results[bi]), a, results, bi + 1)

(* The outer loop: for (const bodyA of this.bodies), over the broad phase  *)
(* qt.                                                                     *)
RECURSIVE CheckBodiesIn(_, _, _)
CheckBodiesIn(qt, st, ai) ==
    IF ai > Len(bodies) \/ st.status # "ok" THEN st
    ELSE LET a == bodies[ai]
         IN  CheckBodiesIn(qt, CheckCandidates(st, a, QuadTreeGet(qt, st.bd, st.bd[a].bounds), 1), ai + 1)

CheckBodies(st, ai) ==
    CheckBodiesIn(quadtree, st, ai)

(* checkCollisions().  When the narrow phase throws, the exception leaves *)
(* update() with the step half done; when GJK does not return, neither     *)
(* does update().                                                          *)
CheckCollisions ==
    /\ pc = "check"
    /\ LET st0 == [bd |-> body, heap |-> islandBodies, list |-> islands, cache |-> collisions,
                   resolved |-> [k \in 1..Len(collisions) |-> collisions[k].id],
                   calls |-> <<>>, confirmed |-> <<>>, status |-> "ok"]
           finish(st) ==
               /\ body' = st.bd
               /\ islandBodies' = st.heap
               /\ islands' = st.list
               /\ narrowCalls' = st.calls
               /\ confirmed' = st.confirmed
               /\ collisions' = IF st.status = "ok"
                                THEN SelectSeq(st.cache, LAMBDA c : c.id \notin Range(st.resolved))
                                ELSE st.cache
               /\ pc' = CASE st.status = "ok" -> "resolve"
                          [] st.status = "throw" -> "idle"
                          [] st.status = "loop" -> "hang"
               /\ upd' = IF st.status = "throw" THEN NoUpdate ELSE upd
       IN  finish(CheckBodies(st0, 1))
    /\ UNCHANGED <<config, added, bodies, quadtree, timeElapsed, stepsElapsed, ops, atStepStart>>

(* resolveCollisions() *)
ResolveCollisions ==
    /\ pc = "resolve"
    /\ LET finish(r) ==
               /\ body' = r.bd
               /\ collisions' = r.cache
       IN  finish(resolveCollisions(body, collisions))
    /\ pc' = "sleep"
    /\ UNCHANGED <<config, added, bodies, quadtree, islands, islandBodies, timeElapsed, stepsElapsed,
                   upd, ops, atStepStart, narrowCalls, confirmed>>

(* step(): the loop over the islands, then back to the loop of update() *)
StepSleep ==
    /\ pc = "sleep"
    /\ body' = ArbitrateAll(body, 1, fixedTimeStep)
    /\ upd' = [upd EXCEPT !.i = upd.i + 1]
    /\ pc' = "loop"
    /\ UNCHANGED <<config, added, bodies, quadtree, collisions, islands, islandBodies, timeElapsed,
                   stepsElapsed, ops, atStepStart, narrowCalls, confirmed>>

Next ==
    \/ \E b \in BodyIds : AddBody(b)
    \/ \E b \in BodyIds : RemoveBody(b)
    \/ \E b \in BodyIds, delta \in TranslateChoices : Translate(b, delta)
    \/ \E b \in BodyIds : Rotate(b)
    \/ \E deltaSeconds \in DtChoices : Update(deltaSeconds)
    \/ UpdateReturn
    \/ StepIntegrate
    \/ StepClearIslands
    \/ CheckCollisions
    \/ ResolveCollisions
    \/ StepSleep

Spec ==
    Init /\ [][Next]_vars


(* ------------------------- construction alone -------------------------- *)

(* 0 / 0.  Sums, differences and products with it are NaN and every        *)
(* comparison with it is false, as for <<0, 0>> under the operators above. *)
NaN ==
    <<0, 0>>

(* Number of bodies the caller constructs. *)
MaxBuilt ==
    2

(* Arguments the caller passes: a point list of two points and one of      *)
(* three, a position with and without NaN, a density and a mass of zero    *)
(* and of more.                                                            *)
BuildPoints ==
    {<<Vec2(I(0), I(0)), Vec2(I(2), I(0))>>,
     <<Vec2(I(0), I(0)), Vec2(I(2), I(0)), Vec2(I(0), I(2))>>}

BuildPositions ==
    {Vec2(I(3), I(3)), Vec2(NaN, I(3))}

BuildDensities ==
    {Zero, I(1)}

BuildMasses ==
    {Zero, I(3)}

(* The value of RigidBody.nextID. *)
nextID ==
    Cardinality(DOMAIN body)

(* What a constructor call leaves: the new object, under its id. *)
Built(b) ==
    [id \in DOMAIN body \cup {b.id} |-> IF id = b.id THEN b ELSE body[id]]

(* new RigidBody(new Polygon(points), position, mass, ...) *)
NewRigidBody(points, position, mass) ==
    /\ nextID < MaxBuilt
    /\ body' = Built(RigidBody(nextID, points, position, mass, Infinity, Zero, Zero, FALSE))
    /\ UNCHANGED <<config, added, bodies, quadtree, collisions, islands, islandBodies, timeElapsed,
                   stepsElapsed, pc, upd, ops, atStepStart, narrowCalls, confirmed>>

(* RigidBody.fromRect(2, 2, position, density, ...) *)
NewFromRect(position, density) ==
    /\ nextID < MaxBuilt
    /\ body' = Built(FromRect(nextID, I(2), I(2), position, density, Infinity, Zero, Zero, FALSE))
    /\ UNCHANGED <<config, added, bodies, quadtree, collisions, islands, islandBodies, timeElapsed,
                   stepsElapsed, pc, upd, ops, atStepStart, narrowCalls, confirmed>>

(* RigidBody.fromConvexPolygon(points, position, density, ...) *)
NewFromConvexPolygon(points, position, density) ==
    /\ nextID < MaxBuilt
    /\ body' = Built(FromConvexPolygon(nextID, points, position, density, Infinity, Zero, Zero, FALSE))
    /\ UNCHANGED <<config, added, bodies, quadtree, collisions, islands, islandBodies, timeElapsed,
                   stepsElapsed, pc, upd, ops, atStepStart, narrowCalls, confirmed>>

InitBuild ==
    /\ config \in Configs
    /\ body = <<>>
    /\ added = {}
    /\ bodies = <<>>
    /\ quadtree = EmptyQuadTree
    /\ collisions = <<>>
    /\ islands = <<>>
    /\ islandBodies = <<>>
    /\ timeElapsed = Zero
    /\ stepsElapsed = 0
    /\ pc = "idle"
    /\ upd = NoUpdate
    /\ ops = <<>>
    /\ atStepStart = <<>>
    /\ narrowCalls = <<>>
    /\ confirmed = <<>>

NextBuild ==
    \/ \E points \in BuildPoints, position \in BuildPositions, mass \in BuildMasses :
           NewRigidBody(points, position, mass)
    \/ \E position \in BuildPositions, density \in BuildDensities :
           NewFromRect(position, density)
    \/ \E points \in BuildPoints, position \in BuildPositions, density \in BuildDensities :
           NewFromConvexPolygon(points, position, density)

SpecBuild ==
    InitBuild /\ [][NextBuild]_vars



(* --------------------------- QuadTree alone ---------------------------- *)

(* The items the caller holds, the bounds it gives them before a call and  *)
(* the bounds it asks get() about: in the 16 x 16 world a unit square that *)
(* sinks to depth MAX_DEPTH, a square that stops at depth 2, one astride   *)
(* the centre that stays in the root and one that reaches out of the       *)
(* world.                                                                  *)
TreeItems ==
    0..2

TreeBounds ==
    {AABBFromDimensions(I(1), I(1), I(1), I(1)),
     AABBFromDimensions(I(1), I(1), I(2), I(2)),
     AABBFromDimensions(I(7), I(7), I(2), I(2)),
     AABBFromDimensions(I(15), I(15), I(2), I(2))}

TreeQueries ==
    {AABBFromDimensions(I(0), I(0), I(16), I(16)),
     AABBFromDimensions(I(0), I(0), I(8), I(8)),
     AABBFromDimensions(I(0), I(0), I(3), I(3)),
     AABBFromDimensions(I(6), I(0), I(4), I(10)),
     AABBFromDimensions(Q(3, 2), Q(3, 2), Q(1, 4), Q(1, 4)),
     AABBFromDimensions(I(12), I(12), I(8), I(8))}

(* An object with the bounds field the tree reads. *)
Item(id, bounds) ==
    [id |-> id, bounds |-> bounds]

InitTree ==
    /\ config \in {c \in Configs : c.gravity = Zero /\ c.velocityIterations = 2}
    /\ body = [k \in TreeItems |-> Item(k, AABBFromDimensions(I(1), I(1), I(1), I(1)))]
    /\ added = {}
    /\ bodies = <<>>
    /\ quadtree = EmptyQuadTree
    /\ collisions = <<>>
    /\ islands = <<>>
    /\ islandBodies = <<>>
    /\ timeElapsed = Zero
    /\ stepsElapsed = 0
    /\ pc = "idle"
    /\ upd = NoUpdate
    /\ ops = <<>>
    /\ atStepStart = <<>>
    /\ narrowCalls = <<>>
    /\ confirmed = <<>>

(* Where an item lies in the nodes: the <<path, index>> pairs that hold it. *)
StoredAt(qt, k) ==
    {x \in UNION {{<<p, i>> : i \in 1..Len(qt.nodes[p])} : p \in DOMAIN qt.nodes} :
        qt.nodes[x[1]][x[2]] = k}

FoundByRemove(qt, k) ==
    IF k \notin DOMAIN qt.itemLocations THEN <<>>
    ELSE [location |-> qt.itemLocations[k], items |-> qt.nodes[qt.itemLocations[k][1]]]

(* item.bounds = bounds; quadtree.insert(item).  added holds the items the *)
(* calls so far have stored; ops names the insert call made for an item    *)
(* that lay in a node already, after which the caller only removes;        *)
(* atStepStart is what the remove of the last call found: the item's       *)
(* location and the items of its node.                                     *)
TreeInsert(k, bounds) ==
    /\ ops = <<>>
    /\ ops' = IF StoredAt(quadtree, k) # {} THEN <<"insert">> ELSE ops
    /\ body' = [body EXCEPT ![k].bounds = bounds]
    /\ quadtree' = QuadTreeInsert(quadtree, k, bounds)
    /\ atStepStart' = <<>>
    /\ added' = IF QuadTreeInsertResult(quadtree, bounds) THEN added \cup {k} ELSE added
    /\ UNCHANGED <<config, bodies, collisions, islands, islandBodies, timeElapsed, stepsElapsed,
                   pc, upd, narrowCalls, confirmed>>

(* quadtree.remove(item) *)
TreeRemove(k) ==
    /\ quadtree' = QuadTreeRemove(quadtree, k)
    /\ atStepStart' = FoundByRemove(quadtree, k)
    /\ added' = added \ {k}
    /\ UNCHANGED <<config, body, bodies, collisions, islands, islandBodies, timeElapsed,
                   stepsElapsed, pc, upd, ops, narrowCalls, confirmed>>

(* item.bounds = bounds; quadtree.update(item) *)
TreeUpdate(k, bounds) ==
    /\ ops = <<>>
    /\ body' = [body EXCEPT ![k].bounds = bounds]
    /\ quadtree' = QuadTreeUpdate(quadtree, k, bounds)
    /\ atStepStart' = FoundByRemove(quadtree, k)
    /\ added' = IF QuadTreeInsertResult(quadtree, bounds) THEN added \cup {k} ELSE added \ {k}
    /\ UNCHANGED <<config, bodies, collisions, islands, islandBodies, timeElapsed, stepsElapsed,
                   pc, upd, ops, narrowCalls, confirmed>>

NextTree ==
    \/ \E k \in TreeItems, bounds \in TreeBounds : TreeInsert(k, bounds)
    \/ \E k \in TreeItems : TreeRemove(k)
    \/ \E k \in TreeItems, bounds \in TreeBounds : TreeUpdate(k, bounds)

SpecTree ==
    InitTree /\ [][NextTree]_vars

(* What the statement asks of get(query). *)
GetIsExact(query, result) ==
    /\ \A k \in added : AABBIntersects(body[k].bounds, query) => k \in Range(result)
    /\ Cardinality(Range(result)) = Len(result)
    /\ Range(result) \subseteq added

(* C23 as stated: after any sequence of insert, remove and update calls,   *)
(* get(query) returns every stored item whose bounds intersect the query,  *)
(* no item twice and no item that is not stored.                           *)
C23_GetReturnsStoredIntersecting ==
    \A query \in TreeQueries : GetIsExact(query, QuadTreeGet(quadtree, body, query))

(* C23: after any sequence of insert, remove and update calls in which     *)
(* insert is called only for items that are not stored, get(query)         *)
(* returns every stored item whose bounds intersect the query, no item     *)
(* twice and no item that is not stored.                                   *)
C23_GetExactWhenInsertedOnce ==
    ops = <<>> =>
        \A query \in TreeQueries : GetIsExact(query, QuadTreeGet(quadtree, body, query))

(* Three items are stored at three depths and no insert was repeated: a    *)
(* query that contains the first quadrant takes the whole subtree, one     *)
(* that cuts it descends into it.                                          *)
C23_Witness ==
    /\ ops = <<>>
    /\ added = TreeItems
    /\ Cardinality({Len(quadtree.itemLocations[k][1]) : k \in TreeItems}) = 3
    /\ \E k \in TreeItems : Len(quadtree.itemLocations[k][1]) = MAX_DEPTH

(* What the statement asks of the item -> location mapping. *)
MappingIsExact(qt) ==
    /\ \A k \in DOMAIN qt.itemLocations :
           /\ StoredAt(qt, k) = {qt.itemLocations[k]}
           /\ \A n \in 0..Len(qt.itemLocations[k][1]) :
                  SubSeq(qt.itemLocations[k][1], 1, n) \in DOMAIN qt.nodes
    /\ \A p \in DOMAIN qt.nodes : \A i \in 1..Len(qt.nodes[p]) :
           qt.nodes[p][i] \in DOMAIN qt.itemLocations

(* C24 as stated: after any sequence of insert, remove and update calls    *)
(* every mapped item is stored exactly once, at the node and index of its  *)
(* location, in a node reachable from the root, and every stored item is   *)
(* mapped.                                                                 *)
C24_MappingExact ==
    MappingIsExact(quadtree)

(* C24: after any sequence of insert, remove and update calls in which     *)
(* insert is called only for items that are not stored, every mapped item  *)
(* is stored exactly once, at the node and index of its location, in a     *)
(* node reachable from the root, every stored item is mapped, and the      *)
(* mapped items are the items the calls have stored.                       *)
C24_MappingExactWhenInsertedOnce ==
    ops = <<>> =>
        /\ MappingIsExact(quadtree)
        /\ DOMAIN quadtree.itemLocations = added

(* The last call removed an item that was not the last of its node: the   *)
(* tail item of that node now lies at the removed item's index and its     *)
(* location says so; no insert was repeated.                               *)
C24_Witness ==
    /\ ops = <<>>
    /\ atStepStart # <<>>
    /\ LET moved(path, index, items) ==
               /\ index < Len(items)
               /\ quadtree.nodes[path][index] = items[Len(items)]
               /\ quadtree.itemLocations[items[Len(items)]] = <<path, index>>
       IN  moved(atStepStart.location[1], atStepStart.location[2], atStepStart.items)



(* ------------------------------ GJK alone ------------------------------ *)

(* Shape objects: a Polygon, a Circle, a Capsule (its two end circles). *)
Polygon(points) ==
    [kind |-> "polygon", points |-> points]

Circle(centre, radius) ==
    [kind |-> "circle", centre |-> centre, radius |-> radius]

Capsule(centre, radius, length) ==
    [kind |-> "capsule",
     circles |-> <<Circle(Vec2(Plus(centre.x, Times(length, Q(1, 2))), centre.y), radius),
                   Circle(Vec2(Minus(centre.x, Times(length, Q(1, 2))), centre.y), radius)>>]

(* Shape.getCentre *)
ShapeGetCentre(shape) ==
    CASE shape.kind = "polygon" -> PolygonGetCentre(shape.points)
      [] shape.kind = "circle" -> shape.centre
      [] shape.kind = "capsule" ->
             Vec2MulScalar(Vec2Add(shape.circles[1].centre, shape.circles[2].centre), Q(1, 2))

(* Shape.getFurthestPoint: Circle and Capsule add direction * radius to a *)
(* centre, with the direction as it is handed in.                          *)
ShapeGetFurthestPoint(shape, direction) ==
    CASE shape.kind = "polygon" -> getFurthestPoint(shape.points, direction)
      [] shape.kind = "circle" -> Vec2Add(shape.centre, Vec2MulScalar(direction, shape.radius))
      [] shape.kind = "capsule" ->
             Vec2Add(IF Ge(Vec2Dot(direction, Vec2Sub(shape.circles[2].centre,
                                                     shape.circles[1].centre)), Zero)
                     THEN shape.circles[2].centre
                     ELSE shape.circles[1].centre,
                     Vec2MulScalar(direction, shape.circles[1].radius))

(* new MinkowskiDiff(shapeA, shapeB, direction) for Shape objects *)
ShapeMinkowskiDiff(shapeA, shapeB, direction) ==
    LET diff(a, b) == [a |-> a, b |-> b, result |-> Vec2Sub(a, b)]
    IN  diff(ShapeGetFurthestPoint(shapeA, direction),
             ShapeGetFurthestPoint(shapeB, Vec2Neg(direction)))

(* Vec2.tripleCross(v1, v2, v3) = (v1 x v2) x v3, with its length. *)
Vec2TripleCross(v1, v2, v3) ==
    LET turn(z) == Vec2(Times(Neg(z), v3.y), Times(z, v3.x))
    IN  turn(Vec2Cross(v1, v2))

(* checkSimplexLine with the direction at its length *)
ShapeCheckSimplexLine(simplex) ==
    LET a == simplex[2].result
        b == simplex[1].result
        ao == Vec2Neg(a)
        pick(ab, normal) ==
            [done |-> FALSE, simplex |-> simplex,
             direction |-> IF normal = Vec2Zero THEN Vec2Perpendicular(ab) ELSE normal]
        cross(ab) == pick(ab, Vec2TripleCross(ab, ao, ab))
    IN  cross(Vec2Sub(b, a))

(* checkSimplexTriangle answering false where the code answers true: the  *)
(* newest two points are kept and the direction is left as it is.          *)
ShapeCheckSimplexTriangleNeverIn(simplex, direction) ==
    LET a == simplex[3].result
        b == simplex[2].result
        c == simplex[1].result
        ao == Vec2Neg(a)
        region(abNormal, acNormal) ==
            IF Gt(Vec2Dot(abNormal, ao), Zero)
            THEN [done |-> FALSE, simplex |-> <<simplex[2], simplex[3]>>, direction |-> abNormal]
            ELSE IF Gt(Vec2Dot(acNormal, ao), Zero)
            THEN [done |-> FALSE, simplex |-> <<simplex[1], simplex[3]>>, direction |-> acNormal]
            ELSE [done |-> FALSE, simplex |-> <<simplex[2], simplex[3]>>, direction |-> direction]
        normals(ab, ac) == region(Vec2TripleCross(ac, ab, ab), Vec2TripleCross(ab, ac, ac))
    IN  normals(Vec2Sub(b, a), Vec2Sub(c, a))

(* checkSimplexTriangle with the direction at its length *)
ShapeCheckSimplexTriangle(simplex, direction) ==
    LET a == simplex[3].result
        b == simplex[2].result
        c == simplex[1].result
        ao == Vec2Neg(a)
        region(abNormal, acNormal) ==
            IF Gt(Vec2Dot(abNormal, ao), Zero)
            THEN [done |-> FALSE, simplex |-> <<simplex[2], simplex[3]>>, direction |-> abNormal]
            ELSE IF Gt(Vec2Dot(acNormal, ao), Zero)
            THEN [done |-> FALSE, simplex |-> <<simplex[1], simplex[3]>>, direction |-> acNormal]
            ELSE [done |-> TRUE, simplex |-> simplex, direction |-> direction]
        normals(ab, ac) == region(Vec2TripleCross(ac, ab, ab), Vec2TripleCross(ab, ac, ac))
    IN  normals(Vec2Sub(b, a), Vec2Sub(c, a))

(* checkSimplex *)
ShapeCheckSimplex(simplex, direction) ==
    IF Len(simplex) = 2 THEN ShapeCheckSimplexLine(simplex)
    ELSE ShapeCheckSimplexTriangle(simplex, direction)

(* The shapes GJK is called with: a square, a triangle, a circle and a    *)
(* capsule about the origin, and the same about a second centre, which is  *)
(* the origin itself, a distance at which the two touch, or further away.  *)
GjkShapesAt(centre) ==
    {Polygon(PolygonFromRect(centre, I(2), I(2))),
     Polygon(PolygonTranslate(<<Vec2(I(-1), I(-1)), Vec2(I(1), I(-1)), Vec2(I(0), I(2))>>, centre)),
     Circle(centre, I(1)),
     Capsule(centre, I(1), I(2))}

GjkCentres ==
    {Vec2(I(0), I(0)), Vec2(I(2), I(0)), Vec2(I(3), I(0)), Vec2(I(0), I(2)),
     Vec2(I(4), I(0)), Vec2(I(1), I(1)), Vec2(I(0), I(3))}

(* body holds the two shapes; upd the locals of GJK: simplex, direction,   *)
(* and whether a support point has projected to exactly 0 on the           *)
(* direction; stepsElapsed the number of passes of the loop made.          *)
InitGjk ==
    /\ config \in {c \in Configs : c.gravity = Zero /\ c.velocityIterations = 2}
    /\ \E shapeA \in GjkShapesAt(Vec2Zero) :
           \E shapeB \in UNION {GjkShapesAt(centre) : centre \in GjkCentres} :
               body = <<shapeA, shapeB>>
    /\ added = {}
    /\ bodies = <<>>
    /\ quadtree = EmptyQuadTree
    /\ collisions = <<>>
    /\ islands = <<>>
    /\ islandBodies = <<>>
    /\ timeElapsed = Zero
    /\ stepsElapsed = 0
    /\ pc = "idle"
    /\ upd = NoUpdate
    /\ ops = <<>>
    /\ atStepStart = <<>>
    /\ narrowCalls = <<>>
    /\ confirmed = <<>>

(* GJK(shapeA, shapeB) up to its loop: the first support point and the     *)
(* direction from it towards the origin.                                   *)
GjkStart(shapeA, shapeB) ==
    LET start(first) ==
            [simplex |-> <<first>>, direction |-> Vec2Neg(first.result), grazed |-> FALSE]
        aim(d0) ==
            start(ShapeMinkowskiDiff(shapeA, shapeB,
                                     IF d0 = Vec2Zero THEN Vec2(I(1), d0.y) ELSE d0))
    IN  aim(Vec2Sub(ShapeGetCentre(shapeA), ShapeGetCentre(shapeB)))

GjkEnter ==
    /\ pc = "idle"
    /\ upd' = GjkStart(body[1], body[2])
    /\ pc' = "loop"
    /\ UNCHANGED <<config, body, added, bodies, quadtree, collisions, islands, islandBodies,
                   timeElapsed, stepsElapsed, ops, atStepStart, narrowCalls, confirmed>>

(* The body of the while (true) loop of GJK: where it leaves the call and  *)
(* its locals.                                                             *)
GjkLoopBody(shapeA, shapeB, locals) ==
    LET next(r, grazed) ==
            [pc |-> IF r.done THEN "collision" ELSE "loop",
             upd |-> [simplex |-> r.simplex, direction |-> r.direction, grazed |-> grazed]]
        support(point, projection) ==
            IF Lt(projection, Zero)
            THEN [pc |-> "noCollision", upd |-> locals]
            ELSE next(ShapeCheckSimplex(Append(locals.simplex, point), locals.direction),
                      locals.grazed \/ projection = Zero)
        test(point) == support(point, Vec2Dot(point.result, locals.direction))
    IN  test(ShapeMinkowskiDiff(shapeA, shapeB, locals.direction))

(* One pass of the loop; GjkMaxIterations passes are followed. *)
GjkPass ==
    /\ pc = "loop"
    /\ stepsElapsed < GjkMaxIterations
    /\ \E after \in {GjkLoopBody(body[1], body[2], upd)} :
           /\ pc' = after.pc
           /\ upd' = after.upd
    /\ stepsElapsed' = stepsElapsed + 1
    /\ UNCHANGED <<config, body, added, bodies, quadtree, collisions, islands, islandBodies,
                   timeElapsed, ops, atStepStart, narrowCalls, confirmed>>

NextGjk ==
    \/ GjkEnter
    \/ GjkPass

SpecGjk ==
    InitGjk /\ [][NextGjk]_vars

(* A step of the call: it is entered, or a pass of its loop is made. *)
GjkRuns ==
    /\ pc \in {"idle", "loop"}
    /\ pc = "loop" => stepsElapsed < GjkMaxIterations
    /\ pc' \in {"loop", "collision", "noCollision"}
    /\ stepsElapsed' \in {stepsElapsed, stepsElapsed + 1}

(* GJK is one synchronous call: while a step of it can be taken, one is. *)
SpecGjkLive ==
    SpecGjk /\ WF_<<pc, stepsElapsed>>(GjkRuns)

(* C25: for every pair of convex shapes (polygon, circle, capsule), those  *)
(* that touch so that a support point projects to exactly 0 on the search  *)
(* direction and those with one centre included, the loop of GJK ends      *)
(* after finitely many passes with collision or with no collision.         *)
C25_GjkTerminates ==
    <>(pc \in {"collision", "noCollision"})

(* GJK has returned for two polygons that touch, after a second pass and   *)
(* a pass in which the support point projected to exactly 0 on the         *)
(* direction.                                                              *)
C25_Witness ==
    /\ pc \in {"collision", "noCollision"}
    /\ upd.grazed
    /\ stepsElapsed >= 2
    /\ body[1].kind = "polygon"
    /\ body[2].kind = "polygon"

(* ------------------------------ claims -------------------------------- *)

(* Every contact of every cached collision. *)
AllContacts ==
    {<<k, j>> : k \in 1..Len(collisions), j \in 1..2} \cap
    {x \in (1..Len(collisions)) \X (1..2) : x[2] <= Len(collisions[x[1]].manifold.contacts)}

OnlyAddAndUpdate ==
    \A k \in 1..Len(ops) : ops[k] = "addBody"

(* C1: after every call of update(), stepsElapsed equals                  *)
(* floor(timeElapsed / fixedTimeStep): the steps run by a call count the  *)
(* quanta elapsed up to and including the call's own deltaSeconds.        *)
C1_StepsMatchElapsedTime ==
    pc = "idle" => stepsElapsed = Floor(Over(timeElapsed, fixedTimeStep))

(* C2: within a step the phases follow one another in the order           *)
(* integration, island clearing, collision pass, solver, sleep            *)
(* arbitration; the collision pass starts from cleared islands and only   *)
(* the integration phase writes the broad phase.                          *)
C2_PhasesInOrder ==
    [][/\ pc = "loop" => pc' \in {"clear", "idle"}
       /\ pc = "clear" => pc' = "check"
       /\ pc = "check" => pc' \in {"resolve", "idle", "hang"}
       /\ pc = "resolve" => pc' = "sleep"
       /\ pc = "sleep" => pc' = "loop"
       /\ pc' = "check" => /\ islands' = <<>>
                           /\ \A k \in 1..Len(bodies) : body'[bodies[k]].island = 0
       /\ (pc # "idle" /\ quadtree' # quadtree) => pc' = "clear"
       /\ (pc # "idle" /\ collisions' # collisions) => pc' \in {"resolve", "sleep", "idle", "hang"}
       /\ (pc # "idle" /\ islands' # islands) => pc' \in {"check", "resolve", "idle", "hang"}]_vars

(* A second step of one update() call has reached its sleep arbitration   *)
(* with a contact confirmed.                                              *)
C2_Witness ==
    pc = "sleep" /\ upd.i = 1 /\ confirmed # <<>> /\ islands # <<>>

(* C3: once the velocity iterations of a step are over, every contact of  *)
(* every cached collision has accumulatedNormalMagnitude >= 0 and         *)
(* |accumulatedTangentMagnitude| <= friction * accumulatedNormalMagnitude.*)
C3_AccumulatedImpulsesBounded ==
    pc \in {"sleep", "loop", "idle"} =>
        \A x \in AllContacts :
            LET c == collisions[x[1]]
                contact == c.manifold.contacts[x[2]]
            IN  /\ Ge(contact.accumulatedNormalMagnitude, Zero)
                /\ Le(AbsQ(contact.accumulatedTangentMagnitude),
                      Times(c.friction, contact.accumulatedNormalMagnitude))

(* The solver has just run, in a second or later step, on a contact whose  *)
(* friction impulse sits exactly on the edge of the friction cone.         *)
C3_Witness ==
    /\ pc = "sleep"
    /\ stepsElapsed + upd.i >= 1
    /\ \E x \in AllContacts :
           /\ collisions[x[1]].manifold.contacts[x[2]].accumulatedTangentMagnitude # Zero
           /\ AbsQ(collisions[x[1]].manifold.contacts[x[2]].accumulatedTangentMagnitude) =
                  Times(collisions[x[1]].friction,
                        collisions[x[1]].manifold.contacts[x[2]].accumulatedNormalMagnitude)

(* C4: after addBody and update calls only, whenever the engine is idle   *)
(* or the collision pass is about to query, quadtree.get(body.bounds)     *)
(* returns every body of the engine whose bounds lie inside the world.    *)
C4_BroadPhaseFindsEveryBody ==
    (OnlyAddAndUpdate /\ pc \in {"idle", "check"}) =>
        \A k \in 1..Len(bodies) :
            AABBContains(worldBounds, body[bodies[k]].bounds) =>
                bodies[k] \in Range(QuadTreeGet(quadtree, body, body[bodies[k]].bounds))

(* C5: in a step checkCollision is called at most once for each           *)
(* unordered pair of bodies, and only with bodyA.id < bodyB.id.           *)
C5_PairVisitedOnce ==
    /\ \A k \in 1..Len(narrowCalls) : narrowCalls[k][1] < narrowCalls[k][2]
    /\ \A k, j \in 1..Len(narrowCalls) :
           k # j => {narrowCalls[k][1], narrowCalls[k][2]} # {narrowCalls[j][1], narrowCalls[j][2]}

(* A collision pass has called the narrow phase for three pairs. *)
C5_Witness ==
    pc = "resolve" /\ Len(narrowCalls) >= 3

(* The bodies of two contact records, when the records share a body. *)
Chain(r1, r2) ==
    IF {r1.a, r1.b} \cap {r2.a, r2.b} # {} THEN {r1.a, r1.b, r2.a, r2.b} ELSE {}

(* C6: when a collision pass has confirmed contacts for (A, B) and (B, C)  *)
(* and none of the three is fixed, then at the end of the pass the three   *)
(* bodies hold the same island and its body set contains all of them.      *)
C6_IslandTransitivity ==
    pc = "resolve" =>
        \A r1, r2 \in Range(confirmed) :
            (\A x \in Chain(r1, r2) : ~body[x].fixed) =>
                \A x, y \in Chain(r1, r2) :
                    /\ body[x].island # 0
                    /\ body[x].island = body[y].island
                    /\ y \in islandBodies[body[x].island]

(* A pass has confirmed a chain over three free bodies that all had an     *)
(* island of their own from their contact with the slab.                   *)
C6_Witness ==
    /\ pc = "resolve"
    /\ \E r0, r1, r2 \in Range(confirmed) :
           /\ body[r0.a].fixed
           /\ Cardinality(Chain(r1, r2)) = 3
           /\ r0.b \in Chain(r1, r2)
           /\ \A x \in Chain(r1, r2) : ~body[x].fixed
    /\ Len(islands) >= 3

(* C7: a body asleep when a step begins, for which the collision pass      *)
(* confirms no contact with a body that is neither fixed nor sleeping, is  *)
(* asleep when the step ends, with its position, rotation, linear and      *)
(* angular velocity as they were.                                          *)
C7_SleeperUndisturbed ==
    (pc = "loop" /\ atStepStart # <<>>) =>
        \A b \in BodyIds :
            (/\ atStepStart[b].sleeping
             /\ \A r \in Range(confirmed) : ~(r.a = b /\ r.awakeB) /\ ~(r.b = b /\ r.awakeA)) =>
                /\ body[b].sleeping
                /\ body[b].position = atStepStart[b].position
                /\ body[b].rotation = atStepStart[b].rotation
                /\ body[b].linearVelocity = atStepStart[b].linearVelocity
                /\ body[b].angularVelocity = atStepStart[b].angularVelocity

(* A step under gravity has ended in which one body slept on while a       *)
(* contact woke another one.                                               *)
C7_Witness ==
    /\ pc = "loop"
    /\ atStepStart # <<>>
    /\ config.gravity # Zero
    /\ \E b, w \in Range(bodies) :
           /\ atStepStart[b].sleeping /\ body[b].sleeping
           /\ atStepStart[w].sleeping /\ \E r \in Range(confirmed) : r.a = w \/ r.b = w

(* C8: sleeping goes from true to false only in the collision pass, for a  *)
(* body of a confirmed contact of which one body at least was awake; at    *)
(* the end of the pass both bodies of every confirmed contact are awake.   *)
C8_WakeOnlyOnContact ==
    [][/\ \A b \in BodyIds :
              (body[b].sleeping /\ ~body'[b].sleeping) =>
                  /\ pc = "check"
                  /\ \E r \in Range(confirmed') : (r.a = b \/ r.b = b) /\ (r.awakeA \/ r.awakeB)
       /\ pc = "check" =>
              \A r \in Range(confirmed') : ~body'[r.a].sleeping /\ ~body'[r.b].sleeping]_vars

(* A collision pass has woken a body that a contact with a body of a       *)
(* lower id and one with a body of a higher id could both have woken.      *)
C8_Witness ==
    /\ pc = "resolve"
    /\ \E r \in Range(confirmed) :
           \/ atStepStart[r.a].sleeping /\ ~body[r.a].sleeping /\ r.awakeB
           \/ atStepStart[r.b].sleeping /\ ~body[r.b].sleeping /\ r.awakeA

(* C9: a fixed body has inverseMass 0 and inverseAngularMass 0, and no     *)
(* phase of a step changes its position, rotation, bounds, linear or       *)
(* angular velocity.                                                       *)
C9_FixedBodiesUntouched ==
    \A b \in BodyIds :
        body[b].fixed =>
            /\ body[b].inverseMass = Zero
            /\ body[b].inverseAngularMass = Zero
            /\ atStepStart # <<>> =>
                   /\ body[b].position = atStepStart[b].position
                   /\ body[b].rotation = atStepStart[b].rotation
                   /\ body[b].bounds = atStepStart[b].bounds
                   /\ body[b].linearVelocity = atStepStart[b].linearVelocity
                   /\ body[b].angularVelocity = atStepStart[b].angularVelocity

(* The solver has run on a contact of the fixed slab that is deeper than   *)
(* the slop and carries an impulse, and has moved the other body.          *)
C9_Witness ==
    /\ pc = "sleep"
    /\ \E k \in 1..Len(collisions) :
           /\ body[collisions[k].bodyA].fixed
           /\ Gt(collisions[k].manifold.depth, Q(1, 10))
           /\ \E j \in 1..Len(collisions[k].manifold.contacts) :
                  Gt(collisions[k].manifold.contacts[j].accumulatedNormalMagnitude, Zero)
           /\ body[collisions[k].bodyB].position # atStepStart[collisions[k].bodyB].position

(* C10: the bounds of every body are the AABB of its collider at its       *)
(* current pose, after construction and after every translate, rotate,     *)
(* integrate and step.                                                     *)
C10_BoundsMatchCollider ==
    \A b \in BodyIds : body[b].bounds = AABBFromShape(body[b].collider)

(* A body the application has rotated has since been integrated and        *)
(* pushed by the position correction.                                      *)
C10_Witness ==
    /\ pc = "sleep"
    /\ \E b \in Range(bodies) :
           /\ body[b].rotation # Zero
           /\ body[b].linearVelocity # atStepStart[b].linearVelocity
           /\ \E k \in 1..Len(collisions) :
                  collisions[k].bodyB = b /\ Gt(collisions[k].manifold.depth, Q(1, 10))

(* C11: at the end of a collision pass the keys of the collision cache    *)
(* are exactly the ids of the pairs whose contact the pass confirmed.      *)
C11_CacheIsConfirmedPairs ==
    pc = "resolve" =>
        {collisions[k].id : k \in 1..Len(collisions)} =
            {CollisionId(r.a, r.b) : r \in Range(confirmed)}

(* A pass has ended that confirmed contacts while a body slept on: the     *)
(* entry the sleeper's contact with the slab had when it fell asleep is    *)
(* gone.                                                                   *)
C11_Witness ==
    /\ pc = "resolve"
    /\ Len(collisions) >= 2
    /\ \E b \in Range(bodies) :
           /\ atStepStart[b].sleeping /\ body[b].sleeping
           /\ \A k \in 1..Len(collisions) : collisions[k].bodyB # b

(* C12: a collision pass leaves every cached manifold with one or two      *)
(* contacts: one for a pair the cache did not hold, and at most one more    *)
(* than before for a pair it held.                                         *)
C12_ManifoldGrowsByOne ==
    [][(pc = "check" /\ pc' = "resolve") =>
           \A k \in 1..Len(collisions') :
               /\ Len(collisions'[k].manifold.contacts) \in 1..2
               /\ IF CacheIndex(collisions, collisions'[k].id) = 0
                  THEN Len(collisions'[k].manifold.contacts) = 1
                  ELSE Len(collisions'[k].manifold.contacts) <=
                           Len(collisions[CacheIndex(collisions, collisions'[k].id)].manifold.contacts) + 1]_vars

(* A pass has ended with a manifold that gained its second contact and a   *)
(* manifold whose only contact is the new one of this pass, for a body     *)
(* that was in contact in the step before.                                 *)
C12_Witness ==
    /\ pc = "resolve"
    /\ \E k \in 1..Len(collisions) : Len(collisions[k].manifold.contacts) = 2
    /\ \E k \in 1..Len(collisions) :
           /\ Len(collisions[k].manifold.contacts) = 1
           /\ atStepStart[collisions[k].bodyB].island # 0
           /\ collisions[k].manifold.contacts[1].accumulatedNormalMagnitude = Zero

(* The impulse a solver pass hands to body b when every impulse J given    *)
(* to a bodyB goes with -J given to the bodyA: the accumulated impulses of  *)
(* the contacts of cache, from contact j of collision k on, signed by the   *)
(* side b is on.  A pass applies to a contact the accumulated impulse it    *)
(* starts with (warm start) and then every change of it.                   *)
RECURSIVE PairedImpulse(_, _, _, _)
PairedImpulse(cache, b, k, j) ==
    IF k > Len(cache) THEN Vec2Zero
    ELSE IF j > Len(cache[k].manifold.contacts) THEN PairedImpulse(cache, b, k + 1, 1)
    ELSE LET contact == cache[k].manifold.contacts[j]
             impulse == Vec2Add(Vec2MulScalar(cache[k].manifold.normal, contact.accumulatedNormalMagnitude),
                                Vec2MulScalar(cache[k].manifold.tangent, contact.accumulatedTangentMagnitude))
             share == IF cache[k].bodyB = b THEN impulse
                      ELSE IF cache[k].bodyA = b THEN Vec2Neg(impulse)
                      ELSE Vec2Zero
         IN  Vec2Add(share, PairedImpulse(cache, b, k, j + 1))

(* The collisions of the cache that involve body b. *)
CollisionsOf(cache, b) ==
    {k \in 1..Len(cache) : cache[k].bodyA = b \/ cache[k].bodyB = b}

(* C13: in a solver pass every impulse J applied to a bodyB is matched by  *)
(* -J applied to the bodyA, so the momentum a free body gains is the       *)
(* signed sum of the impulses of its contacts, and for two free bodies     *)
(* that touch only each other massA * vA + massB * vB is unchanged.        *)
C13_ImpulsesArePaired ==
    [][pc = "resolve" =>
           /\ \A b \in BodyIds :
                  ~body[b].fixed =>
                      Vec2MulScalar(Vec2Sub(body'[b].linearVelocity, body[b].linearVelocity), body[b].mass) =
                          PairedImpulse(collisions', b, 1, 1)
           /\ \A k \in 1..Len(collisions) :
                  (/\ ~body[collisions[k].bodyA].fixed
                   /\ ~body[collisions[k].bodyB].fixed
                   /\ CollisionsOf(collisions, collisions[k].bodyA) = {k}
                   /\ CollisionsOf(collisions, collisions[k].bodyB) = {k}) =>
                      Vec2Add(Vec2MulScalar(body'[collisions[k].bodyA].linearVelocity,
                                            body[collisions[k].bodyA].mass),
                              Vec2MulScalar(body'[collisions[k].bodyB].linearVelocity,
                                            body[collisions[k].bodyB].mass)) =
                      Vec2Add(Vec2MulScalar(body[collisions[k].bodyA].linearVelocity,
                                            body[collisions[k].bodyA].mass),
                              Vec2MulScalar(body[collisions[k].bodyB].linearVelocity,
                                            body[collisions[k].bodyB].mass))]_vars

(* The solver has run on two free bodies that touch only each other and    *)
(* has pushed them apart with a normal impulse.                            *)
C13_Witness ==
    /\ pc = "sleep"
    /\ \E k \in 1..Len(collisions) :
           /\ ~body[collisions[k].bodyA].fixed
           /\ ~body[collisions[k].bodyB].fixed
           /\ CollisionsOf(collisions, collisions[k].bodyA) = {k}
           /\ CollisionsOf(collisions, collisions[k].bodyB) = {k}
           /\ Gt(collisions[k].manifold.contacts[1].accumulatedNormalMagnitude, Zero)
           /\ body[collisions[k].bodyA].linearVelocity # atStepStart[collisions[k].bodyA].linearVelocity


(* The engine's own state, as one record. *)
Engine ==
    [body |-> body, quadtree |-> quadtree, collisions |-> collisions, islands |-> islands,
     islandBodies |-> islandBodies]

(* The engine after the addBody calls of the list, made on a new engine   *)
(* with newly built bodies.                                                *)
RECURSIVE InsertAll(_, _, _)
InsertAll(qt, bd, k) ==
    IF k > Len(bodies) THEN qt
    ELSE InsertAll(QuadTreeInsert(qt, bodies[k], bd[bodies[k]].bounds), bd, k + 1)

EngineAtStart ==
    [body |-> Pool(config), quadtree |-> InsertAll(EmptyQuadTree, Pool(config), 1),
     collisions |-> <<>>, islands |-> <<>>, islandBodies |-> <<>>]

(* step(fixedTimeStep) up to the return of checkCollisions, as a function *)
(* of the engine state.                                                    *)
EngineChecked(e) ==
    LET check(e2) ==
            LET put(st) ==
                    [e2 EXCEPT !.body = st.bd, !.islandBodies = st.heap, !.islands = st.list,
                               !.collisions = SelectSeq(st.cache, LAMBDA c : c.id \notin Range(st.resolved))]
            IN  put(CheckBodiesIn(e2.quadtree,
                                  [bd |-> e2.body, heap |-> e2.islandBodies, list |-> e2.islands,
                                   cache |-> e2.collisions,
                                   resolved |-> [k \in 1..Len(e2.collisions) |-> e2.collisions[k].id],
                                   calls |-> <<>>, confirmed |-> <<>>, status |-> "ok"],
                                  1))
        clear(e1) ==
            LET put(cleared) ==
                    [e1 EXCEPT !.body = cleared, !.islands = <<>>,
                               !.islandBodies = Reachable(e1.islandBodies, cleared, <<>>)]
            IN  check(put([b \in DOMAIN e1.body |->
                              IF b \in Range(bodies) THEN [e1.body[b] EXCEPT !.island = 0] ELSE e1.body[b]]))
        first(r) ==
            clear([e EXCEPT !.body = r.bd, !.quadtree = r.qt])
    IN  first(IntegrateAll(e.body, e.quadtree, 1, fixedTimeStep))

(* One whole step(fixedTimeStep) as a function of the engine state. *)
EngineAfterStep(e) ==
    LET sleep(e4) ==
            [e4 EXCEPT !.body = ArbitrateIslands(e4.body, e4.islands, e4.islandBodies, 1, fixedTimeStep)]
        resolve(e3) ==
            LET put(r) == [e3 EXCEPT !.body = r.bd, !.collisions = r.cache]
            IN  sleep(put(resolveCollisions(e3.body, e3.collisions)))
    IN  resolve(EngineChecked(e))

RECURSIVE Replay(_, _)
Replay(e, n) ==
    IF n = 0 THEN e ELSE Replay(EngineAfterStep(e), n - 1)

EpaFailsFor(pair) ==
    LET expand(gjkResult) ==
            /\ gjkResult.collision
            /\ EPA(body[pair[1]].collider, body[pair[2]].collider, gjkResult.simplex).failed
    IN  expand(GJK(body[pair[1]].collider, body[pair[2]].collider))

(* C15: when EPA does not converge within its 100 passes for a pair that  *)
(* checkCollisions hands to the narrow phase, the error leaves             *)
(* checkCollision, step and update: control is back with the caller        *)
(* without resolveCollisions or the sleep arbitration of that step having  *)
(* run, and neither stepsElapsed nor timeElapsed has advanced.             *)
C15_EpaFailureLeavesUpdate ==
    [][(pc = "check" /\ \E k \in 1..Len(narrowCalls') : EpaFailsFor(narrowCalls'[k])) =>
           /\ pc' = "idle"
           /\ upd' = NoUpdate
           /\ stepsElapsed' = stepsElapsed
           /\ timeElapsed' = timeElapsed]_vars

(* update() has been left by the error: the call is over with the narrow  *)
(* phase of its step begun and the last pair it was handed one EPA fails   *)
(* on.                                                                     *)
C15_Witness ==
    /\ pc = "idle"
    /\ narrowCalls # <<>>
    /\ EpaFailsFor(narrowCalls[Len(narrowCalls)])
    /\ Floor(Over(timeElapsed, fixedTimeStep)) > stepsElapsed

(* C16: no body comes out of a constructor call whose polygon has fewer   *)
(* than 3 vertices, whose mass is zero or whose position contains NaN:     *)
(* such calls are rejected, by the RigidBody constructor and by the        *)
(* factories alike.                                                        *)
C16_InvalidBodiesRejected ==
    \A id \in DOMAIN body :
        /\ Len(body[id].collider) >= 3
        /\ body[id].mass # Zero
        /\ body[id].position.x # NaN
        /\ body[id].position.y # NaN

(* The nodes of the tree that hold the item. *)
NodesHolding(qt, b) ==
    {p \in DOMAIN qt.nodes : \E k \in 1..Len(qt.nodes[p]) : qt.nodes[p][k] = b}

(* C17: QuadTree.insert returns false and changes neither a node's items  *)
(* nor the item locations when the item's bounds are not inside the root   *)
(* bounds; otherwise it returns true and the item is in exactly one node.  *)
(* addBody pushes the body on the body list whatever insert returned, so   *)
(* a body outside the world is on the list and in no node.                 *)
C17_InsertOutsideIsSilent ==
    [][(pc = "idle" /\ Len(bodies') = Len(bodies) + 1) =>
           LET b == bodies'[Len(bodies')]
           IN  /\ bodies' = Append(bodies, b)
               /\ IF AABBContains(worldBounds, body[b].bounds)
                  THEN /\ QuadTreeInsertResult(quadtree, body[b].bounds)
                       /\ Cardinality(NodesHolding(quadtree', b)) = 1
                       /\ b \in DOMAIN quadtree'.itemLocations
                       /\ quadtree'.itemLocations[b][1] \in NodesHolding(quadtree', b)
                  ELSE /\ ~QuadTreeInsertResult(quadtree, body[b].bounds)
                       /\ quadtree' = quadtree
                       /\ NodesHolding(quadtree', b) = {}
                       /\ b \notin DOMAIN quadtree'.itemLocations]_vars

(* Both cases have happened: a body astride the edge of the world is on   *)
(* the list and in no node, after a body inside the world that is in one.  *)
C17_Witness ==
    /\ pc = "idle"
    /\ timeElapsed = Zero
    /\ ops = <<>>
    /\ \E b \in Range(bodies) :
           /\ ~AABBContains(worldBounds, body[b].bounds)
           /\ NodesHolding(quadtree, b) = {}
           /\ b \notin DOMAIN quadtree.itemLocations
    /\ \E b \in Range(bodies) :
           /\ AABBContains(worldBounds, body[b].bounds)
           /\ Cardinality(NodesHolding(quadtree, b)) = 1

(* ----------------------- resolveCollisions alone ----------------------- *)

(* step() with resolveCollisions() made call by call, once the engine     *)
(* holds all the bodies.  pc is the call to make next, upd holds the       *)
(* cursor k into collisions.values() and the velocity iteration i, ops     *)
(* lists the calls resolveCollisions has made in this step, <<method,      *)
(* collision id>>, and atStepStart keeps the bodies and the contact cache  *)
(* that resolveCollisions was entered with.  Beside the worlds of Configs  *)
(* there is one whose sleepTimeThreshold is 0.                             *)
(* The head of the second loop of resolveCollisions, given the i and k it *)
(* is reached with.                                                        *)
VelocityCursor(cache, i, k) ==
    IF cache = <<>> \/ i >= config.velocityIterations THEN [pc |-> "solved", k |-> 1, i |-> i]
    ELSE IF k <= Len(cache) THEN [pc |-> "velocity", k |-> k, i |-> i]
    ELSE IF i + 1 >= config.velocityIterations THEN [pc |-> "solved", k |-> 1, i |-> i + 1]
    ELSE [pc |-> "velocity", k |-> 1, i |-> i + 1]

(* The first loop leaving after its first collision. *)
PrepareCursorFirstOnly(cache, k) ==
    IF k <= 1 /\ k <= Len(cache) THEN [pc |-> "position", k |-> k, i |-> 0]
    ELSE VelocityCursor(cache, 0, 1)

(* The head of the first loop, given the k it is reached with. *)
PrepareCursor(cache, k) ==
    IF k <= Len(cache) THEN [pc |-> "position", k |-> k, i |-> 0]
    ELSE VelocityCursor(cache, 0, 1)

InitSolve ==
    /\ config \in Configs \cup {[c EXCEPT !.sleepTimeThreshold = Zero] :
                                  c \in {d \in Configs : d.gravity = Zero /\ d.velocityIterations = 2}}
    /\ body = Pool(config)
    /\ added = {}
    /\ bodies = <<>>
    /\ quadtree = EmptyQuadTree
    /\ collisions = <<>>
    /\ islands = <<>>
    /\ islandBodies = <<>>
    /\ timeElapsed = Zero
    /\ stepsElapsed = 0
    /\ pc = "idle"
    /\ upd = [k |-> 1, i |-> 0]
    /\ ops = <<>>
    /\ atStepStart = <<>>
    /\ narrowCalls = <<>>
    /\ confirmed = <<>>

(* Lines 72-97 of step(): integration, the islands cleared,               *)
(* checkCollisions(), and the head of the first loop of resolveCollisions. *)
StepToResolve ==
    /\ pc = "idle"
    /\ added = BodyIds
    /\ stepsElapsed < MaxTime
    /\ \E e \in {EngineChecked(Engine)} :
           /\ body' = e.body
           /\ quadtree' = e.quadtree
           /\ collisions' = e.collisions
           /\ islands' = e.islands
           /\ islandBodies' = e.islandBodies
           /\ atStepStart' = [body |-> e.body, collisions |-> e.collisions]
           /\ \E cursor \in {PrepareCursor(e.collisions, 1)} :
                  /\ pc' = cursor.pc
                  /\ upd' = [k |-> cursor.k, i |-> cursor.i]
    /\ ops' = <<>>
    /\ UNCHANGED <<config, added, bodies, timeElapsed, stepsElapsed, narrowCalls, confirmed>>

(* collision.solvePositionLinearOnly() *)
SolvePosition ==
    /\ pc = "position"
    /\ body' = solvePositionLinearOnly(body, collisions[upd.k])
    /\ ops' = Append(ops, <<"solvePositionLinearOnly", collisions[upd.k].id>>)
    /\ pc' = "warm"
    /\ UNCHANGED <<config, added, bodies, quadtree, collisions, islands, islandBodies, timeElapsed,
                   stepsElapsed, upd, atStepStart, narrowCalls, confirmed>>

(* collision.applyAccumulatedImpulses() *)
WarmStart ==
    /\ pc = "warm"
    /\ body' = applyAccumulatedImpulses(body, collisions[upd.k], 1)
    /\ ops' = Append(ops, <<"applyAccumulatedImpulses", collisions[upd.k].id>>)
    /\ pc' = "bias"
    /\ UNCHANGED <<config, added, bodies, quadtree, collisions, islands, islandBodies, timeElapsed,
                   stepsElapsed, upd, atStepStart, narrowCalls, confirmed>>

(* contact.updateRestitutionBias(...) for each contact of the collision,  *)
(* and the head of the first loop again.                                   *)
UpdateBias ==
    /\ pc = "bias"
    /\ collisions' =
           [collisions EXCEPT ![upd.k].manifold.contacts =
               [j \in 1..Len(collisions[upd.k].manifold.contacts) |->
                   updateRestitutionBias(collisions[upd.k].manifold.contacts[j],
                                         body[collisions[upd.k].bodyA], body[collisions[upd.k].bodyB],
                                         collisions[upd.k].manifold.normal)]]
    /\ ops' = Append(ops, <<"updateRestitutionBias", collisions[upd.k].id>>)
    /\ LET at(cursor) ==
               /\ pc' = cursor.pc
               /\ upd' = [k |-> cursor.k, i |-> cursor.i]
       IN  at(PrepareCursor(collisions, upd.k + 1))
    /\ UNCHANGED <<config, body, added, bodies, quadtree, islands, islandBodies, timeElapsed,
                   stepsElapsed, atStepStart, narrowCalls, confirmed>>

(* collision.solveVelocity(), and the head of the second loop again *)
SolveVelocity ==
    /\ pc = "velocity"
    /\ LET finish(r) ==
               /\ body' = r.bd
               /\ collisions' = [collisions EXCEPT ![upd.k] = r.c]
       IN  finish(solveVelocity(body, collisions[upd.k]))
    /\ ops' = Append(ops, <<"solveVelocity", collisions[upd.k].id>>)
    /\ LET at(cursor) ==
               /\ pc' = cursor.pc
               /\ upd' = [k |-> cursor.k, i |-> cursor.i]
       IN  at(VelocityCursor(collisions, upd.i, upd.k + 1))
    /\ UNCHANGED <<config, added, bodies, quadtree, islands, islandBodies, timeElapsed,
                   stepsElapsed, atStepStart, narrowCalls, confirmed>>

(* Lines 100-127 of step(), and the return to update(). *)
StepReturn ==
    /\ pc = "solved"
    /\ body' = ArbitrateAll(body, 1, fixedTimeStep)
    /\ stepsElapsed' = stepsElapsed + 1
    /\ timeElapsed' = Plus(timeElapsed, fixedTimeStep)
    /\ pc' = "idle"
    /\ UNCHANGED <<config, added, bodies, quadtree, collisions, islands, islandBodies, upd, ops,
                   atStepStart, narrowCalls, confirmed>>

NextSolve ==
    \/ \E b \in BodyIds : AddBody(b)
    \/ StepToResolve
    \/ SolvePosition
    \/ WarmStart
    \/ UpdateBias
    \/ SolveVelocity
    \/ StepReturn

SpecSolve ==
    InitSolve /\ [][NextSolve]_vars

(* The place of the first call of the method on the collision in the      *)
(* list of calls, 0 when there is none.                                    *)
FirstCall(method, id) ==
    IF \E j \in 1..Len(ops) : ops[j] = <<method, id>>
    THEN CHOOSE j \in 1..Len(ops) : ops[j] = <<method, id>> /\ \A h \in 1..(j - 1) : ops[h] # <<method, id>>
    ELSE 0

FirstVelocityCall ==
    IF \E j \in 1..Len(ops) : ops[j][1] = "solveVelocity"
    THEN CHOOSE j \in 1..Len(ops) : ops[j][1] = "solveVelocity" /\ \A h \in 1..(j - 1) : ops[h][1] # "solveVelocity"
    ELSE Len(ops) + 1

RECURSIVE LinkedAfter(_, _, _)
LinkedAfter(st, pairs, k) ==
    LET next(prev) == WakeAndLink(prev.bd, prev.heap, prev.list, pairs[k].a, pairs[k].b)
    IN  IF k = 0 THEN st ELSE next(LinkedAfter(st, pairs, k - 1))

(* The island `survivor` holds the bodies of both islands after the link  *)
(* and each of them points to it.                                          *)
Survives(before, after, survivor, ia, ib) ==
    /\ after.heap[survivor] = before.heap[ia] \cup before.heap[ib]
    /\ \A m \in before.heap[ia] \cup before.heap[ib] : after.bd[m].island = survivor

(* The pair joins two different islands of `before`. *)
JoinsTwoIslands(before, pair) ==
    /\ before.bd[pair.a].island # 0
    /\ before.bd[pair.b].island # 0
    /\ before.bd[pair.a].island # before.bd[pair.b].island

LargerSurvives(before, after, pair) ==
    LET into(ia, ib) ==
            /\ Cardinality(before.heap[ia]) > Cardinality(before.heap[ib]) =>
                   Survives(before, after, ia, ia, ib)
            /\ Cardinality(before.heap[ia]) < Cardinality(before.heap[ib]) =>
                   Survives(before, after, ib, ia, ib)
            /\ Survives(before, after, ia, ia, ib) \/ Survives(before, after, ib, ia, ib)
    IN  JoinsTwoIslands(before, pair) =>
            into(before.bd[pair.a].island, before.bd[pair.b].island)

(* C19: when a pass of checkCollisions confirms a contact between bodies   *)
(* of two different islands, the island with more bodies survives: it      *)
(* holds the bodies of both afterwards and each of them points to it.      *)
C19_SmallerMergedIntoLarger ==
    [][pc = "check" =>
           \A k \in 1..Len(confirmed') :
               LargerSurvives(LinkedAfter([bd |-> body, heap |-> islandBodies, list |-> islands],
                                          confirmed', k - 1),
                              LinkedAfter([bd |-> body, heap |-> islandBodies, list |-> islands],
                                          confirmed', k),
                              confirmed'[k])]_vars

(* The least of the timeStill values the bodies of the island hold in bd. *)
LeastTimeStill(bd, members) ==
    CHOOSE t \in {bd[b].timeStill : b \in members} :
        \A u \in {bd[b].timeStill : b \in members} : Le(t, u)

(* Lines 109-118 of step() seen from outside: the timeStill of each body   *)
(* of each island grows by the time step when the body is under both       *)
(* thresholds and is 0 afterwards when it is not.                          *)
TimeStillKept(before, after) ==
    \A k \in 1..Len(islands) : \A b \in islandBodies[islands[k]] :
        /\ (Lt(MagnitudeSquared(before[b].linearVelocity),
               Times(config.sleepLinearThreshold, config.sleepLinearThreshold))
            /\ Lt(AbsQ(before[b].angularVelocity), config.sleepAngularThreshold)) =>
               after[b].timeStill = Plus(before[b].timeStill, fixedTimeStep)
        /\ ~(Lt(MagnitudeSquared(before[b].linearVelocity),
                Times(config.sleepLinearThreshold, config.sleepLinearThreshold))
             /\ Lt(AbsQ(before[b].angularVelocity), config.sleepAngularThreshold)) =>
               after[b].timeStill = Zero

AllUnderThresholds(bd, members) ==
    \A b \in members :
        /\ Lt(MagnitudeSquared(bd[b].linearVelocity),
              Times(config.sleepLinearThreshold, config.sleepLinearThreshold))
        /\ Lt(AbsQ(bd[b].angularVelocity), config.sleepAngularThreshold)

(* The island sleeps as a whole when `due`, and keeps its flags when not. *)
SleepsWhen(before, after, members, due) ==
    /\ due => \A b \in members : after[b].sleeping
    /\ ~due => \A b \in members : after[b].sleeping = before[b].sleeping

OnlyContactsWith(b, f) ==
    \A r \in Range(confirmed) : (r.a = b \/ r.b = b) => (r.a = f \/ r.b = f)

(* C21: no island holds a fixed body and no fixed body holds an island;    *)
(* so two bodies that are not fixed and whose only confirmed contacts of a *)
(* collision pass are with one and the same fixed body leave the pass in   *)
(* two different islands.                                                  *)
C21_FixedBodiesOutsideIslands ==
    /\ \A k \in DOMAIN islandBodies : \A b \in islandBodies[k] : ~body[b].fixed
    /\ \A b \in BodyIds : body[b].fixed => body[b].island = 0
    /\ pc = "resolve" =>
           \A r1, r2 \in Range(confirmed) :
               (/\ body[r1.a].fixed /\ r2.a = r1.a
                /\ ~body[r1.b].fixed /\ ~body[r2.b].fixed /\ r1.b # r2.b
                /\ OnlyContactsWith(r1.b, r1.a) /\ OnlyContactsWith(r2.b, r1.a)) =>
                   /\ body[r1.b].island # 0
                   /\ body[r2.b].island # 0
                   /\ body[r1.b].island # body[r2.b].island

(* A pass has confirmed contacts of two free bodies with the slab and no   *)
(* other contact of either.                                                *)
C21_Witness ==
    /\ pc = "resolve"
    /\ \E r1, r2 \in Range(confirmed) :
           /\ body[r1.a].fixed /\ r2.a = r1.a
           /\ ~body[r1.b].fixed /\ ~body[r2.b].fixed /\ r1.b # r2.b
           /\ OnlyContactsWith(r1.b, r1.a) /\ OnlyContactsWith(r2.b, r1.a)

(* C26: at the end of every collision pass, for every body of the engine   *)
(* and every island of the island list, the body is in the island's body   *)
(* set if and only if the body's island is that island; so a body is in    *)
(* the body set of at most one island of the list.                         *)
C26_IslandsConsistentAndDisjoint ==
    pc = "resolve" =>
        /\ \A b \in Range(bodies) : \A k \in Range(islands) :
               b \in islandBodies[k] <=> body[b].island = k
        /\ \A b \in Range(bodies) :
               Cardinality({k \in Range(islands) : b \in islandBodies[k]}) <= 1

(* A pass has merged one island of the list into another that now holds   *)
(* three bodies or more.                                                   *)
C26_Witness ==
    /\ pc = "resolve"
    /\ \E k, j \in Range(islands) :
           /\ islandBodies[k] = {}
           /\ Cardinality(islandBodies[j]) >= 3
           /\ islandBodies[j] \subseteq Range(bodies)

(* The non-fixed bodies for which the step confirmed a contact, and the   *)
(* bodies a chain of confirmed contacts between non-fixed bodies connects  *)
(* to the bodies of S.                                                     *)
FreeInContact ==
    {x \in BodyIds : ~body[x].fixed /\ \E r \in Range(confirmed) : x \in {r.a, r.b}}

RECURSIVE ConnectedTo(_)
ConnectedTo(S) ==
    LET grown == S \cup {y \in FreeInContact :
                            \E r \in Range(confirmed) : \E x \in S : {r.a, r.b} = {x, y}}
    IN  IF grown = S THEN S ELSE ConnectedTo(grown)

ContactGroups ==
    {ConnectedTo({x}) : x \in FreeInContact}

(* C27: after every step every island of the island list holds at least   *)
(* one body, and the length of the list is the number of groups of         *)
(* contact-connected non-fixed bodies the step found.                      *)
C27_NoEmptyIslandInList ==
    (pc = "loop" /\ upd.i > 0) =>
        /\ \A k \in Range(islands) : islandBodies[k] # {}
        /\ Len(islands) = Cardinality(ContactGroups)

(* C28: every collision in the cache when the solver pass runs has a body  *)
(* that is not fixed, and the sum of the two inverse masses is positive,   *)
(* so solvePositionLinearOnly does not divide by zero; and no contact is   *)
(* confirmed for a pair whose bodies were both fixed or sleeping when the  *)
(* pair was checked.                                                       *)
C28_SolvedPairsHaveAMovableBody ==
    pc = "resolve" =>
        /\ \A k \in 1..Len(collisions) :
               /\ ~(body[collisions[k].bodyA].fixed /\ body[collisions[k].bodyB].fixed)
               /\ Gt(Plus(body[collisions[k].bodyA].inverseMass,
                          body[collisions[k].bodyB].inverseMass), Zero)
        /\ \A r \in Range(confirmed) : r.awakeA \/ r.awakeB
        /\ \A call \in Range(narrowCalls) :
               \E x \in {call[1], call[2]} : ~body[x].fixed /\ ~body[x].sleeping

(* The solver pass is about to run on a contact with the fixed slab while  *)
(* a body that slept through the pass lies in the slab's bounds and the    *)
(* pair of the two was skipped.                                            *)
C28_Witness ==
    /\ pc = "resolve"
    /\ \E c \in Range(collisions) : body[c.bodyA].fixed
    /\ \E f, b \in Range(bodies) :
           /\ body[f].fixed
           /\ f < b
           /\ atStepStart[b].sleeping
           /\ body[b].sleeping
           /\ AABBIntersects(body[f].bounds, body[b].bounds)
           /\ <<f, b>> \notin Range(narrowCalls)

(* C29: removeBody(body) takes exactly that body out of the body list and  *)
(* out of the broad phase and keeps every other body in the list; for a    *)
(* body that is not in the engine it leaves the list and the broad phase   *)
(* as they are.                                                            *)
C29_RemoveBodyRemovesOnlyThatBody ==
    [][\A b \in BodyIds :
           RemoveBody(b) =>
               IF b \in Range(bodies)
               THEN /\ Range(bodies') = Range(bodies) \ {b}
                    /\ Len(bodies') = Len(bodies) - 1
                    /\ DOMAIN quadtree'.itemLocations = DOMAIN quadtree.itemLocations \ {b}
               ELSE /\ bodies' = bodies
                    /\ quadtree' = quadtree]_vars

(* C30: a step leaves the sleeping flag and timeStill of a non-fixed body  *)
(* that holds no island at sleep arbitration as they were when the step    *)
(* began; so an awake body in free flight stays awake however slow it is.  *)
C30_LooseBodiesNotArbitrated ==
    (pc = "loop" /\ upd.i > 0) =>
        \A b \in BodyIds :
            (~body[b].fixed /\ body[b].island = 0) =>
                /\ body[b].sleeping = atStepStart[b].sleeping
                /\ body[b].timeStill = atStepStart[b].timeStill

(* A step has ended with an awake body of the list under both thresholds   *)
(* and in no island, while an island of the list was arbitrated.           *)
C30_Witness ==
    /\ pc = "loop"
    /\ upd.i > 0
    /\ \E k \in Range(islands) : islandBodies[k] # {}
    /\ \E b \in Range(bodies) :
           /\ ~body[b].fixed
           /\ body[b].island = 0
           /\ ~body[b].sleeping
           /\ IsStill(body[b])

(* The squared distances between the new contact and a retained one. *)
DistanceA(newContact, contact) ==
    MagnitudeSquared(Vec2Sub(newContact.localPosA, contact.localPosA))

DistanceB(newContact, contact) ==
    MagnitudeSquared(Vec2Sub(newContact.localPosB, contact.localPosB))

FarOnEither(kept, newContact) ==
    \A k \in 1..Len(kept) :
        Ge(DistanceA(newContact, kept[k]), I(4)) \/ Ge(DistanceB(newContact, kept[k]), I(4))

FarOnBoth(kept, newContact) ==
    \A k \in 1..Len(kept) :
        Ge(DistanceA(newContact, kept[k]), I(4)) /\ Ge(DistanceB(newContact, kept[k]), I(4))

(* The contacts the pass retained of a cached collision, and the new      *)
(* contact the narrow phase found for its pair.                            *)
RetainedOf(existing, collision) ==
    RemoveInvalid(existing.manifold.contacts, Len(existing.manifold.contacts),
                  body[existing.bodyA], body[existing.bodyB], collision.manifold.normal)

FoundFor(existing) ==
    checkCollision(body[existing.bodyA], body[existing.bodyB]).collision

(* The pass that ends in this step left the re-confirmed collision after  *)
(* with the retained contacts, followed by the new one when appended says  *)
(* so, cut down to two.                                                    *)
AppendedWhen(after, kept, newContact, appended) ==
    after.manifold.contacts =
        ReduceToTwo(IF appended THEN Append(kept, newContact) ELSE kept)

(* C22 as stated: the new contact of a pair the cache held is appended to  *)
(* the retained contacts exactly when, for every retained contact, its     *)
(* localPosA or its localPosB is at a squared distance of 4 or more.       *)
C22_AppendedWhenFarOnEither ==
    [][(pc = "check" /\ pc' = "resolve") =>
           \A k \in 1..Len(collisions') :
               CacheIndex(collisions, collisions'[k].id) # 0 =>
                   LET rule(existing, found) ==
                           LET decide(kept, newContact) ==
                                   AppendedWhen(collisions'[k], kept, newContact,
                                                FarOnEither(kept, newContact))
                           IN  decide(RetainedOf(existing, found), found.manifold.contacts[1])
                       with(existing) == rule(existing, FoundFor(existing))
                   IN  with(collisions[CacheIndex(collisions, collisions'[k].id)])]_vars

(* C22: the new contact of a pair the cache held is appended to the        *)
(* retained contacts exactly when, for every retained contact, both its    *)
(* localPosA and its localPosB are at a squared distance of 4 or more; a   *)
(* retained contact closer than 4 on either makes it a duplicate.          *)
C22_AppendedWhenFarOnBoth ==
    [][(pc = "check" /\ pc' = "resolve") =>
           \A k \in 1..Len(collisions') :
               CacheIndex(collisions, collisions'[k].id) # 0 =>
                   LET rule(existing, found) ==
                           LET decide(kept, newContact) ==
                                   AppendedWhen(collisions'[k], kept, newContact,
                                                FarOnBoth(kept, newContact))
                           IN  decide(RetainedOf(existing, found), found.manifold.contacts[1])
                       with(existing) == rule(existing, FoundFor(existing))
                   IN  with(collisions[CacheIndex(collisions, collisions'[k].id)])]_vars

(* A pass is about to re-confirm a cached pair whose new contact is at a   *)
(* squared distance of 4 or more from every retained contact on one of    *)
(* the two local positions, and closer than 4 to a retained contact on     *)
(* the other.                                                              *)
C22_Witness ==
    /\ pc = "check"
    /\ \E k \in 1..Len(collisions) :
           LET differ(kept, newContact) ==
                   /\ kept # <<>>
                   /\ FarOnEither(kept, newContact)
                   /\ ~FarOnBoth(kept, newContact)
               found(existing, r) ==
                   /\ r.kind = "hit"
                   /\ differ(RetainedOf(existing, r.collision), r.collision.manifold.contacts[1])
               checked(existing) ==
                   /\ ~Filtered(body[existing.bodyA], body[existing.bodyB])
                   /\ found(existing, checkCollision(body[existing.bodyA], body[existing.bodyB]))
           IN  checked(collisions[k])
=============================================================================
